---- MODULE Spec2Model ----
(***************************************************************************)
(* A model of the vector indexing subsystem of "seen": the durable          *)
(* embeddings table (D1), the remote index (Vectorize), the embedded index  *)
(* snapshot (vector_lite.bin in R2), the resumable rebuild                  *)
(* (upgrade_vector_index) and the embedding client (generate_embeddings).   *)
(*                                                                          *)
(* An id is a sequence of '-'-free tokens: the string "a-b" is <<a, b>>,    *)
(* and format!("{}-{}", id, chunk) appends the chunk token.  A vector is    *)
(* named by the vector id of the chunk whose text it embeds, so that two    *)
(* vectors are equal exactly when they embed the same chunk.                *)
(*                                                                          *)
(* VectorLite is an external crate: the embedded index is modelled as a     *)
(* map from id to vector (insert of a present id replaces it), len() as the *)
(* number of ids in the map.                                                *)
(***************************************************************************)
EXTENDS Integers, Sequences, FiniteSets, TLC

VARIABLES
    links,          \* table links, as listed by "order by created_at desc"
    embeddings,     \* table embeddings: vector_id -> [vector, link_id]
    vectorize,      \* the remote index: id -> values
    vector_lite_bin,\* the blob "vector_lite.bin": NoBlob or the bytes
    last,           \* what the last operation did and returned
    runs,           \* rebuild invocations so far, where they are counted
    workers_ai,     \* the replies the embedding service gives, in order
    calls,          \* requests sent to the embedding service by the last embed
    tasks           \* invocations in flight: where each stands, what it holds

vars == <<links, embeddings, vectorize, vector_lite_bin, last, runs,
          workers_ai, calls, tasks>>

-----------------------------------------------------------------------------
(* Bounds of the model *)

MaxDocs == 2            \* documents in the listing
MaxIds == 330           \* canonical ids in the listing
MaxRuns == 4            \* counted rebuild invocations
MaxHits == 6            \* hits a backend returns to one query

DocIds == {<<1>>, <<2, 3>>}
StableDocIds == <<<<1>>, <<2, 3>>, <<4>>>>
ChunkCounts == {1, 22, 305}
GetFaultAts == {0, 14}
RowFaultAts == {0, 299}

(* Program constants *)

BATCH_SIZE == 20        \* new_ids.chunks(20)
MAX_BATCHES == 15       \* .take(15)

-----------------------------------------------------------------------------
(* Small helpers *)

Min(a, b) == IF a < b THEN a ELSE b

EmptyMap == [x \in {} |-> 0]

\* v, evaluated once, handed to F
Bind(v, F(_)) == CHOOSE y \in {F(x) : x \in {v}} : TRUE

-----------------------------------------------------------------------------
(* Ids *)

\* format!("{}-{}", id, chunk)
VectorId(id, chunk) == Append(id, chunk)

\* id.split('-'), then parts[0..parts.len() - 1].join("-")
LinkIdOf(vector_id) == SubSeq(vector_id, 1, Len(vector_id) - 1)

\* The vector the embedding model computes for a chunk.
EmbeddingOf(vector_id) == vector_id

\* for link in links { for chunk in 0..link.chunk_count { ids.push(..) } }
RECURSIVE CanonicalIds(_)
CanonicalIds(ls) ==
    IF ls = <<>> THEN <<>>
    ELSE [c \in 1..Head(ls).chunk_count |-> VectorId(Head(ls).id, c - 1)]
         \o CanonicalIds(Tail(ls))

-----------------------------------------------------------------------------
(* The embedded index (VectorLite) and its blob *)

NoBlob == [present |-> FALSE]

\* VectorLite::<768>::new(4, 20)
NewIndex == EmptyMap

IndexLen(index) == Cardinality(DOMAIN index)

\* index.to_bytes()
ToBytes(index) == [present |-> TRUE, ids |-> DOMAIN index, vectors |-> index]

\* VectorLite::<768>::from_bytes(&existing)
FromBytes(bytes) == [id \in bytes.ids |-> bytes.vectors[id]]

\* The first n pairs of chunk.into_iter().zip(chunk_vectors), as a map from
\* the id to the vector paired with it (the ids of a chunk are distinct).
ZipPairs(chunk, vecs, n) ==
    [v \in {chunk[i] : i \in 1..n} |->
        vecs[CHOOSE i \in 1..n : chunk[i] = v]]

\* A faulty variant: the pairs are not inserted
InsertAll_Dropped(index, pairs) == index

\* index.insert(vector, id) for each of the pairs
InsertAll(index, pairs) == pairs @@ index

-----------------------------------------------------------------------------
(* The remote index (Vectorize) *)

\* get_by_ids: the stored values of the requested ids the index holds, in
\* the order of the request or in another order (the service promises none).
get_vector_by_id(remote, ids, order) ==
    LET found == SelectSeq(ids, LAMBDA v : v \in DOMAIN remote)
        n == Len(found)
    IN  [i \in 1..n |-> IF order = "as_requested" THEN remote[found[i]]
                        ELSE remote[found[n + 1 - i]]]

Orders == {"as_requested", "reversed"}

-----------------------------------------------------------------------------
(* The rebuild: upgrade_vector_index *)

\* A faulty variant: the rows are not written
UpsertRows_Skipped(db, pairs) == db

\* INSERT OR REPLACE INTO embeddings (vector_id, vector, link_id), for each
\* of the pairs
UpsertRows(db, pairs) ==
    [v \in DOMAIN pairs |-> [vector |-> pairs[v], link_id |-> LinkIdOf(v)]] @@ db

\* A faulty variant: nothing is skipped
NewIds_NoSkip(ids, index) == ids

\* A faulty variant: the ids the index holds are skipped, wherever they are listed
NewIds_ByMembership(ids, index) ==
    SelectSeq(ids, LAMBDA v : v \notin DOMAIN index)

\* ids.iter().skip(index.len())
NewIds(ids, index) == SubSeq(ids, IndexLen(index) + 1, Len(ids))

\* A faulty variant: chunks(20) without take(15)
NumBatches_NoTake(new_ids) == (Len(new_ids) + BATCH_SIZE - 1) \div BATCH_SIZE

\* new_ids.chunks(20).take(15): how many chunks, and the j-th of them
NumBatches(new_ids) ==
    Min(MAX_BATCHES, (Len(new_ids) + BATCH_SIZE - 1) \div BATCH_SIZE)

Batch(new_ids, j) ==
    SubSeq(new_ids, (j - 1) * BATCH_SIZE + 1, Min(j * BATCH_SIZE, Len(new_ids)))

\* chunk.into_iter().zip(chunk_vectors) stops at the shorter of the two
ZipLen(chunk, vecs) == Min(Len(chunk), Len(vecs))

(* A fault is the one step of the invocation that returns Err:            *)
(*   "table" create_table_stmt.run(), "list" get_all_links,               *)
(*   "get" the request after `at` successful get_by_ids requests,         *)
(*   "row" the row write after `at` successful row writes,                *)
(*   "save" save_to_bucket; "none" when every step succeeds.              *)
NoFault == [kind |-> "none", at |-> 0]

Faults ==
    {NoFault}
    \cup {[kind |-> k, at |-> 0] : k \in {"table", "list", "save"}}
    \cup {[kind |-> "get", at |-> n] : n \in GetFaultAts}
    \cup {[kind |-> "row", at |-> n] : n \in RowFaultAts}

\* The body of the loop once the vectors of the chunk came back: one row
\* write and one index.insert per zipped pair, up to the row write that fails
WriteBatch(st, chunk, vecs, asked, fault) ==
    LET n == ZipLen(chunk, vecs)
        fails == /\ fault.kind = "row"
                 /\ st.rows <= fault.at
                 /\ fault.at < st.rows + n
        done == IF fails THEN fault.at - st.rows ELSE n
    IN  Bind(ZipPairs(chunk, vecs, done), LAMBDA pairs :
            [db |-> UpsertRows(st.db, pairs),
             index |-> InsertAll(st.index, pairs),
             migrated |-> st.migrated + Len(chunk),
             requests |-> asked,
             rows |-> st.rows + done,
             err |-> IF fails THEN "row" ELSE "none"])

\* The body of the loop for the j-th chunk
ProcessBatch(st, chunk, j, remote, order, fault) ==
    LET asked == Append(st.requests, Len(chunk))
    IN  IF fault.kind = "get" /\ fault.at = j - 1
        THEN [st EXCEPT !.requests = asked, !.err = "get"]
        ELSE Bind(get_vector_by_id(remote, chunk, order), LAMBDA vecs :
                  WriteBatch(st, chunk, vecs, asked, fault))

\* for chunk in new_ids.chunks(20).take(15) { ... }, from the j-th chunk on
RECURSIVE RunBatches(_, _, _, _, _, _)
RunBatches(st, new_ids, j, remote, order, fault) ==
    IF j > NumBatches(new_ids) \/ st.err # "none" THEN st
    ELSE Bind(ProcessBatch(st, Batch(new_ids, j), j, remote, order, fault),
              LAMBDA next :
                  RunBatches(next, new_ids, j + 1, remote, order, fault))

\* read_from_bucket(&env, "vector_lite.bin"): Err when the object is absent,
\* and when the bucket request itself fails (readOk = FALSE)
read_from_bucket(blob, readOk) ==
    IF blob.present /\ readOk THEN [ok |-> TRUE, bytes |-> blob]
    ELSE [ok |-> FALSE, bytes |-> NoBlob]

\* Ok(existing) => from_bytes(&existing), Err(_e) => new(4, 20)
LoadIndex(blob, readOk) ==
    LET r == read_from_bucket(blob, readOk)
    IN  IF r.ok THEN FromBytes(r.bytes) ELSE NewIndex

\* A faulty variant: the blob is written although a step failed
Outcome_SavedOnErr(st, blob, total_ids, start, fault) ==
    [db |-> st.db, blob |-> ToBytes(st.index), ok |-> st.err = "none",
     err |-> st.err, total |-> total_ids, migrated |-> st.migrated,
     requests |-> st.requests, rows |-> st.rows, start |-> start,
     saved |-> TRUE]

\* The end of the invocation, after the loop left `st`: the `?` of a failed
\* step returns Err before the blob is written; otherwise the index is
\* serialized, the blob overwritten and Ok((total_ids, migrated)) returned.
Outcome(st, blob, total_ids, start, fault) ==
    LET out == [db |-> st.db, blob |-> blob, ok |-> FALSE, err |-> st.err,
                total |-> 0, migrated |-> 0, requests |-> st.requests,
                rows |-> st.rows, start |-> start, saved |-> FALSE]
    IN  IF st.err # "none" THEN out
        ELSE IF fault.kind = "save" THEN [out EXCEPT !.err = "save"]
        ELSE [out EXCEPT !.blob = ToBytes(st.index), !.ok = TRUE,
                         !.total = total_ids, !.migrated = st.migrated,
                         !.saved = TRUE]

\* The whole invocation: what it leaves in the table and the blob, and what
\* it returns.
upgrade_vector_index(ls, db, remote, blob, readOk, order, fault) ==
    Bind(LoadIndex(blob, readOk), LAMBDA index :
    Bind(CanonicalIds(ls), LAMBDA ids :
    Bind(NewIds(ids, index), LAMBDA new_ids :
    Bind([db |-> db, index |-> index, migrated |-> IndexLen(index),
          requests |-> <<>>, rows |-> 0, err |-> "none"], LAMBDA st0 :
        IF fault.kind \in {"table", "list"}
        THEN Outcome([st0 EXCEPT !.err = fault.kind], blob, Len(ids),
                     IndexLen(index), fault)
        ELSE Bind(RunBatches(st0, new_ids, 1, remote, order, fault),
                  LAMBDA st :
                      Outcome(st, blob, Len(ids), IndexLen(index), fault))))))

-----------------------------------------------------------------------------
(* The embedding client *)

Texts == {"t1", "t2"}

\* What the service can answer to one request: the request is not delivered
\* (Fetch fails), or a status comes back with a body that is either not an
\* EmbeddingResponse or one, { success, result: { data } }.
Malformed == [json |-> FALSE]

Bodies ==
    {Malformed} \cup
    {[json |-> TRUE, success |-> ok, data |-> d] :
        ok \in BOOLEAN, d \in {<<>>, <<<<7>>>>, <<<<8>>, <<7>>>>}}

Replies ==
    {[sent |-> FALSE, status |-> 0, body |-> Malformed]} \cup
    {[sent |-> TRUE, status |-> st, body |-> b] :
        st \in {200, 204, 500}, b \in Bodies}

\* A faulty variant: every 2xx status is accepted
post_request_2xx(reply) ==
    IF ~reply.sent THEN [ok |-> FALSE, err |-> <<"send">>]
    ELSE IF reply.status < 200 \/ reply.status > 299
    THEN [ok |-> FALSE, err |-> <<"status", reply.status, reply.body>>]
    ELSE [ok |-> TRUE, body |-> reply.body]

\* post_request: Err when the request cannot be sent or the status is not 200
post_request(reply) ==
    IF ~reply.sent THEN [ok |-> FALSE, err |-> <<"send">>]
    ELSE IF reply.status # 200
    THEN [ok |-> FALSE, err |-> <<"status", reply.status, reply.body>>]
    ELSE [ok |-> TRUE, body |-> reply.body]

\* generate_embedding_attempt, given the reply to its request
generate_embedding_attempt(reply) ==
    LET response == post_request(reply)
    IN  IF ~response.ok THEN response
        ELSE IF ~response.body.json
        THEN [ok |-> FALSE, err |-> <<"json">>]
        ELSE IF ~response.body.success \/ response.body.data = <<>>
        THEN [ok |-> FALSE, err |-> <<"empty response", response.body>>]
        ELSE [ok |-> TRUE, vector |-> response.body.data[1]]

\* EmbeddingRequest { text: vec![text.to_string()] }
EmbeddingRequest(text) == [text |-> <<text>>]

\* A faulty variant: the error of the first attempt is returned when the retry fails
generate_embeddings_FirstErr(text, replies) ==
    LET embedding_req == EmbeddingRequest(text)
        first == generate_embedding_attempt(replies[1])
        second == generate_embedding_attempt(replies[2])
    IN  IF first.ok
        THEN [result |-> first, calls |-> <<embedding_req>>]
        ELSE [result |-> IF second.ok THEN second ELSE first,
              calls |-> <<embedding_req, embedding_req>>]

\* generate_embeddings: the first attempt, and one retry when it failed.
\* `replies` are the service's answers to the first, second, ... request.
generate_embeddings(text, replies) ==
    LET embedding_req == EmbeddingRequest(text)
        first == generate_embedding_attempt(replies[1])
    IN  IF first.ok
        THEN [result |-> first, calls |-> <<embedding_req>>]
        ELSE [result |-> generate_embedding_attempt(replies[2]),
              calls |-> <<embedding_req, embedding_req>>]

-----------------------------------------------------------------------------
(* Ingestion *)

\* insert_vector, once per chunk of the document: each chunk's vector is
\* written to the remote index under its vector id
InsertVectors(remote, id, embs) ==
    [v \in {VectorId(id, i - 1) : i \in 1..Len(embs)} |-> embs[v[Len(v)] + 1]]
    @@ remote

\* A faulty variant: the vector ids are numbered from 1
SaveEmbeddingRows_OneBased(db, row, embs) ==
    [v \in {VectorId(row.id, i) : i \in 1..Len(embs)} |->
        [vector |-> embs[v[Len(v)]], link_id |-> row.id]]
    @@ db

\* save_link_to_db: one batch, the links row and one embeddings row per
\* element of `embs`, with vector ids "{row.id}-{i}" for i = 0, 1, ...
SaveEmbeddingRows(db, row, embs) ==
    [v \in {VectorId(row.id, i - 1) : i \in 1..Len(embs)} |->
        [vector |-> embs[v[Len(v)] + 1], link_id |-> row.id]]
    @@ db

\* the newest row is listed first (order by created_at desc)
SaveLinkRow(ls, row) == <<row>> \o ls

\* A row of links: the columns the model reads.  A document is created once
\* per url, and the url is written here as a function of the id.
UrlOf(id) == <<0>> \o id

DocInfo(id, n) == [id |-> id, url |-> UrlOf(id), chunk_count |-> n]

ChunkEmbeddings(id, n) == [i \in 1..n |-> EmbeddingOf(VectorId(id, i - 1))]

-----------------------------------------------------------------------------
(* State *)

NoOp == [op |-> "none"]

Stores(ls) ==
    /\ links = ls
    /\ vector_lite_bin = NoBlob
    /\ last = NoOp
    /\ runs = 0
    /\ workers_ai = <<>>
    /\ calls = <<>>
    /\ tasks = <<>>

\* The listings of at most n documents with at most MaxIds canonical ids.
RECURSIVE Listings(_, _)
Listings(n, names) ==
    IF n = 0 THEN {<<>>}
    ELSE Listings(n - 1, names) \cup
         {SaveLinkRow(ls, DocInfo(id, c)) :
            ls \in {l \in Listings(n - 1, names) : Len(l) = n - 1},
            id \in names, c \in ChunkCounts}

TotalIds(ls) == Len(CanonicalIds(ls))

\* Every chunk of every listed document, as ingestion left it in a store.
RECURSIVE Ingested(_)
Ingested(ls) ==
    IF ls = <<>> THEN EmptyMap
    ELSE InsertVectors(Ingested(Tail(ls)), Head(ls).id,
                       ChunkEmbeddings(Head(ls).id, Head(ls).chunk_count))

\* The deployment starts empty, or with one document ingested before the
\* embeddings table existed (the table the rebuild creates and fills).
Init ==
    \E ls \in {l \in Listings(1, DocIds) : TotalIds(l) <= MaxIds} :
        /\ Stores(ls)
        /\ embeddings = EmptyMap
        /\ vectorize = Ingested(ls)

\* A document is ingested: every chunk's vector goes to the remote index and
\* to the embeddings table, together with the links row.
InsertLink ==
    \E id \in DocIds, n \in ChunkCounts :
        /\ Len(links) < MaxDocs
        /\ Len(CanonicalIds(links)) + n <= MaxIds
        /\ \A i \in 1..Len(links) : links[i].id # id
        /\ vectorize' = InsertVectors(vectorize, id, ChunkEmbeddings(id, n))
        /\ embeddings' = SaveEmbeddingRows(embeddings, DocInfo(id, n),
                                            ChunkEmbeddings(id, n))
        /\ links' = SaveLinkRow(links, DocInfo(id, n))
        /\ last' = [op |-> "insert", id |-> id]
        /\ UNCHANGED <<vector_lite_bin, runs, workers_ai, calls, tasks>>

UpgradeResult(readOk, order, fault) ==
    upgrade_vector_index(links, embeddings, vectorize, vector_lite_bin,
                         readOk, order, fault)

\* One invocation of /upgrade in which `fault` is the step that fails.
Upgrade(readOk, order, fault) ==
    \E r \in {UpgradeResult(readOk, order, fault)} :
        /\ r.err = fault.kind
        /\ embeddings' = r.db
        /\ vector_lite_bin' = r.blob
        /\ last' = [op |-> "upgrade", ok |-> r.ok, err |-> r.err,
                    total |-> r.total, migrated |-> r.migrated,
                    requests |-> r.requests, rows |-> r.rows,
                    start |-> r.start, saved |-> r.saved]
        /\ UNCHANGED <<links, vectorize, workers_ai, calls, tasks>>

\* The faults that can occur in an invocation started in this state.
Applicable(readOk, fault) ==
    LET new_ids == NewIds(CanonicalIds(links), LoadIndex(vector_lite_bin, readOk))
    IN  /\ fault.kind = "get" => fault.at < NumBatches(new_ids)
        /\ fault.kind = "row" => fault.at < Len(new_ids)

UpgradeAny ==
    \E readOk \in BOOLEAN, fault \in Faults :
        /\ (~readOk => vector_lite_bin.present)
        /\ Applicable(readOk, fault)
        /\ Upgrade(readOk, "as_requested", fault)
        /\ UNCHANGED runs

Next ==
    \/ InsertLink
    \/ UpgradeAny

Spec == Init /\ [][Next]_vars

-----------------------------------------------------------------------------
(* The rebuild over a listing that never changes: the documents were all    *)
(* ingested before the first invocation, nothing is deleted, no step fails. *)

\* The embeddings rows of every listed document, as save_link_to_db wrote them.
RECURSIVE IngestedRows(_)
IngestedRows(ls) ==
    IF ls = <<>> THEN EmptyMap
    ELSE SaveEmbeddingRows(IngestedRows(Tail(ls)), Head(ls),
             ChunkEmbeddings(Head(ls).id, Head(ls).chunk_count))

\* The listings of a fixed set of documents: the i-th oldest document is named
\* StableDocIds[i].
StableListings ==
    {l \in Listings(MaxDocs, {StableDocIds[i] : i \in 1..Len(StableDocIds)}) :
        \A i \in 1..Len(l) : l[i].id = StableDocIds[Len(l) + 1 - i]}

InitStable ==
    \E ls \in StableListings, legacy \in BOOLEAN :
        /\ Stores(ls)
        /\ embeddings = IF legacy THEN EmptyMap ELSE IngestedRows(ls)
        /\ vectorize = Ingested(ls)

UpgradeStable ==
    \E order \in Orders :
        /\ Upgrade(TRUE, order, NoFault)
        /\ runs' = Min(runs + 1, MaxRuns)

NextStable == UpgradeStable

SpecStable == InitStable /\ [][NextStable]_vars

\* The operator invokes /upgrade again and again.
FairSpecStable == SpecStable /\ WF_vars(UpgradeStable)

-----------------------------------------------------------------------------
(* The rebuild against a remote index that may lack a vector: an            *)
(* insert_vector of the ingestion failed after the rows had been saved.     *)

\* The remote index without the vectors of `ids`
Without(remote, ids) == [v \in DOMAIN remote \ ids |-> remote[v]]

\* No vector is lacking, or the one of the first or of the last canonical id.
Lacking(ls) ==
    {{}} \cup {{CanonicalIds(ls)[k]} : k \in {1, TotalIds(ls)} \cap 1..TotalIds(ls)}

InitPairing ==
    \E ls \in StableListings, legacy \in BOOLEAN :
        \E lacking \in Lacking(ls) :
            /\ Stores(ls)
            /\ embeddings = IF legacy THEN EmptyMap ELSE IngestedRows(ls)
            /\ vectorize = Without(Ingested(ls), lacking)

SpecPairing == InitPairing /\ [][UpgradeStable]_vars

-----------------------------------------------------------------------------
(* The embedding client on its own: one call of generate_embeddings against *)
(* a service whose next three replies are fixed in advance.                 *)

InitEmbed ==
    /\ links = <<>>
    /\ embeddings = EmptyMap
    /\ vectorize = EmptyMap
    /\ vector_lite_bin = NoBlob
    /\ last = NoOp
    /\ runs = 0
    /\ calls = <<>>
    /\ tasks = <<>>
    /\ workers_ai \in [1..3 -> Replies]

GenerateEmbeddings ==
    \E text \in Texts :
        \E r \in {generate_embeddings(text, workers_ai)} :
            /\ last.op = "none"
            /\ calls' = r.calls
            /\ last' = [op |-> "embed", text |-> text, result |-> r.result]
            /\ UNCHANGED <<links, embeddings, vectorize, vector_lite_bin,
                           runs, workers_ai, tasks>>

NextEmbed == GenerateEmbeddings

SpecEmbed == InitEmbed /\ [][NextEmbed]_vars

-----------------------------------------------------------------------------
(* Ingestion, step by step, with the steps that can fail *)

\* What the remote index answers to an insert: only the status is read.
InsertReplies ==
    {[sent |-> FALSE, status |-> 0], [sent |-> TRUE, status |-> 200],
     [sent |-> TRUE, status |-> 500]}

\* A faulty variant: the status of the reply is not looked at
insert_vector_AnyStatus(remote, id, values, reply) ==
    IF ~reply.sent THEN [ok |-> FALSE, err |-> "send", remote |-> remote]
    ELSE [ok |-> TRUE, err |-> "none",
          remote |-> IF reply.status = 200
                     THEN [v \in {id} |-> values] @@ remote ELSE remote]

\* insert_vector: Err("Failed to insert vector") unless the status is 200
insert_vector(remote, id, values, reply) ==
    IF ~reply.sent THEN [ok |-> FALSE, err |-> "send", remote |-> remote]
    ELSE IF reply.status # 200
    THEN [ok |-> FALSE, err |-> "Failed to insert vector", remote |-> remote]
    ELSE [ok |-> TRUE, err |-> "none",
          remote |-> [v \in {id} |-> values] @@ remote]

\* A faulty variant: the batch holds the links row only
save_link_to_db_LinksOnly(ls, db, row, embs, fails) ==
    IF fails THEN [ok |-> FALSE, links |-> ls, db |-> db]
    ELSE [ok |-> TRUE, links |-> SaveLinkRow(ls, row), db |-> db]

\* save_link_to_db: the links row and the embeddings rows in one d1.batch
save_link_to_db(ls, db, row, embs, fails) ==
    IF fails THEN [ok |-> FALSE, links |-> ls, db |-> db]
    ELSE [ok |-> TRUE, links |-> SaveLinkRow(ls, row),
          db |-> SaveEmbeddingRows(db, row, embs)]

\* The replies of the embedding service to the two attempts for one chunk.
GoodReply ==
    [sent |-> TRUE, status |-> 200,
     body |-> [json |-> TRUE, success |-> TRUE, data |-> <<<<7>>>>]]

BadReply == [sent |-> TRUE, status |-> 500, body |-> Malformed]

EmbedReplies ==
    {<<GoodReply, GoodReply>>, <<BadReply, GoodReply>>, <<BadReply, BadReply>>}

\* The chunk whose requests get the replies chosen; every other request of
\* the ingestion succeeds.
IngestFaultAts == {1, 2, 22}

IngestFaults ==
    [db : BOOLEAN, at : IngestFaultAts, embed : EmbedReplies,
     insert : InsertReplies]

\* The index writes of the chunks, in order, up to the first that fails.
IndexWrites(remote, id, embs, fault) ==
    IF fault.at > Len(embs)
    THEN [ok |-> TRUE, err |-> "none",
          remote |-> InsertVectors(remote, id, embs)]
    ELSE LET before == InsertVectors(remote, id,
                                     SubSeq(embs, 1, fault.at - 1))
             this == VectorId(id, fault.at - 1)
             r == insert_vector(before, this, embs[fault.at], fault.insert)
             all == InsertVectors(EmptyMap, id, embs)
         IN  IF ~r.ok THEN r
             ELSE [ok |-> TRUE, err |-> "none",
                   remote |-> [v \in {w \in DOMAIN all :
                                        w[Len(w)] + 1 > fault.at} |-> all[v]]
                              @@ r.remote]

\* insert_link: the chunks are embedded, the links row and the embeddings
\* rows are written, then each vector is written to the remote index; the
\* first error is returned.
insert_link(ls, db, remote, id, n, fault) ==
    LET row == DocInfo(id, n)
        embs == ChunkEmbeddings(id, n)
        embedded == IF fault.at > n THEN [ok |-> TRUE]
                    ELSE generate_embeddings("t1", fault.embed).result
    IN  IF ~embedded.ok
        THEN [ok |-> FALSE, step |-> "embed", links |-> ls, db |-> db,
              remote |-> remote]
        ELSE LET saved == save_link_to_db(ls, db, row, embs, fault.db)
             IN  IF ~saved.ok
                 THEN [ok |-> FALSE, step |-> "db", links |-> ls, db |-> db,
                       remote |-> remote]
                 ELSE LET w == IndexWrites(remote, id, embs, fault)
                      IN  IF ~w.ok
                          THEN [ok |-> FALSE, step |-> "index",
                                links |-> saved.links, db |-> saved.db,
                                remote |-> w.remote]
                          ELSE [ok |-> TRUE, step |-> "done",
                                links |-> saved.links, db |-> saved.db,
                                remote |-> w.remote]

InitIngest ==
    \E ls \in Listings(MaxDocs - 1,
                       {StableDocIds[i] : i \in 1..Len(StableDocIds)}) :
        /\ Stores(ls)
        /\ embeddings = IngestedRows(ls)
        /\ vectorize = Ingested(ls)

\* One ingestion of a document not yet listed.
IngestLink ==
    /\ last.op = "none"
    /\ Len(links) < MaxDocs
    /\ \E i \in 1..Len(StableDocIds), n \in ChunkCounts, fault \in IngestFaults :
        /\ Len(CanonicalIds(links)) + n <= MaxIds
        /\ \A j \in 1..Len(links) : links[j].id # StableDocIds[i]
        /\ \E r \in {insert_link(links, embeddings, vectorize,
                                 StableDocIds[i], n, fault)} :
            /\ links' = r.links
            /\ embeddings' = r.db
            /\ vectorize' = r.remote
            /\ last' = [op |-> "ingest", id |-> StableDocIds[i], n |-> n,
                        fault |-> fault, ok |-> r.ok, step |-> r.step]
            /\ UNCHANGED <<vector_lite_bin, runs, workers_ai, calls, tasks>>

NextIngest == IngestLink

SpecIngest == InitIngest /\ [][NextIngest]_vars

-----------------------------------------------------------------------------
(* The query against the remote index *)

\* VectorMatch values the index can return; the order is the index's own.
MatchLists ==
    {<<>>,
     <<[id |-> <<1, 0>>, score |-> 3, metadata |-> "m"]>>,
     <<[id |-> <<1, 0>>, score |-> 3, metadata |-> "m"],
       [id |-> <<2, 3, 1>>, score |-> 2, metadata |-> "none"]>>,
     <<[id |-> <<2, 3, 1>>, score |-> 1, metadata |-> "none"],
       [id |-> <<1, 0>>, score |-> 3, metadata |-> "m"],
       [id |-> <<1, 0>>, score |-> 3, metadata |-> "m"]>>}

\* A body that is a VectorQueryResponse { result: { matches }, success } or
\* not one
QueryBodies ==
    {Malformed} \cup
    {[json |-> TRUE, success |-> ok, matches |-> m] :
        ok \in BOOLEAN, m \in MatchLists}

QueryReplies ==
    {[sent |-> FALSE, status |-> 0, body |-> Malformed]} \cup
    {[sent |-> TRUE, status |-> st, body |-> b] :
        st \in {200, 500}, b \in QueryBodies}

TopKs == {1, 5}

\* VectorQueryRequest { vector, top_k, return_metadata: "all" }
VectorQueryRequest(vector, top_k) ==
    [vector |-> vector, top_k |-> top_k, return_metadata |-> "all"]

\* .map(|m| (m.id, m.score)).collect()
MatchPairs(matches) ==
    [i \in 1..Len(matches) |-> <<matches[i].id, matches[i].score>>]

\* A faulty variant: the success flag of the response is not looked at
query_vectors_with_scores_AnySuccess(query_text, top_k, embed, reply) ==
    LET query_vector == generate_embeddings(query_text, embed)
        response == post_request(reply)
        sent == query_vector.calls \o
                <<VectorQueryRequest(query_vector.result.vector, top_k)>>
    IN  IF ~query_vector.result.ok
        THEN [result |-> query_vector.result, calls |-> query_vector.calls]
        ELSE IF ~response.ok
        THEN [result |-> response, calls |-> sent]
        ELSE IF ~response.body.json
        THEN [result |-> [ok |-> FALSE, err |-> <<"json">>], calls |-> sent]
        ELSE [result |-> [ok |-> TRUE,
                          pairs |-> MatchPairs(response.body.matches)],
              calls |-> sent]

\* query_vectors_with_scores: the query text is embedded, the vector is
\* posted to the index, and the matches of a successful response are
\* returned as (id, score). `embed` are the replies of the embedding service,
\* `reply` is the reply of the index.
query_vectors_with_scores(query_text, top_k, embed, reply) ==
    LET query_vector == generate_embeddings(query_text, embed)
        response == post_request(reply)
        sent == query_vector.calls \o
                <<VectorQueryRequest(query_vector.result.vector, top_k)>>
    IN  IF ~query_vector.result.ok
        THEN [result |-> query_vector.result, calls |-> query_vector.calls]
        ELSE IF ~response.ok
        THEN [result |-> response, calls |-> sent]
        ELSE IF ~response.body.json
        THEN [result |-> [ok |-> FALSE, err |-> <<"json">>], calls |-> sent]
        ELSE IF ~response.body.success
        THEN [result |-> [ok |-> FALSE, err |-> <<"unsuccessful response">>],
              calls |-> sent]
        ELSE [result |-> [ok |-> TRUE,
                          pairs |-> MatchPairs(response.body.matches)],
              calls |-> sent]

\* The next two replies of the embedding service are fixed in advance.
InitQuery ==
    /\ links = <<>>
    /\ embeddings = EmptyMap
    /\ vectorize = EmptyMap
    /\ vector_lite_bin = NoBlob
    /\ last = NoOp
    /\ runs = 0
    /\ calls = <<>>
    /\ tasks = <<>>
    /\ workers_ai \in [1..2 -> {GoodReply, BadReply}]

QueryVectors ==
    /\ last.op = "none"
    /\ \E query_text \in Texts, top_k \in TopKs, reply \in QueryReplies :
        \E r \in {query_vectors_with_scores(query_text, top_k, workers_ai,
                                            reply)} :
            /\ calls' = r.calls
            /\ last' = [op |-> "query", text |-> query_text, top_k |-> top_k,
                        reply |-> reply, result |-> r.result]
    /\ UNCHANGED <<links, embeddings, vectorize, vector_lite_bin, runs,
                   workers_ai, tasks>>

SpecQuery == InitQuery /\ [][QueryVectors]_vars

-----------------------------------------------------------------------------
(* The message handler: which command a text is, and which index a search *)
(* is run against.  A text is the sequence of its characters.              *)

\* The literals of `match text.as_str()`, character by character
Commands ==
    [start |-> <<"/", "s", "t", "a", "r", "t">>,
     help |-> <<"/", "h", "e", "l", "p">>,
     list |-> <<"/", "l", "i", "s", "t">>,
     upgrade |-> <<"/", "u", "p", "g", "r", "a", "d", "e">>,
     delete_vector |-> <<"/", "d", "e", "l", "e", "t", "e", "_", "v", "e", "c", "t", "o", "r", " ">>,
     insert |-> <<"/", "i", "n", "s", "e", "r", "t", " ">>,
     http |-> <<"h", "t", "t", "p", ":", "/", "/">>,
     https |-> <<"h", "t", "t", "p", "s", ":", "/", "/">>,
     search_cf |-> <<"/", "s", "e", "a", "r", "c", "h", " ", "c", "f", " ">>,
     search |-> <<"/", "s", "e", "a", "r", "c", "h", " ">>,
     delete |-> <<"/", "d", "e", "l", "e", "t", "e", " ">>]

\* text.starts_with(prefix)
starts_with(text, prefix) ==
    /\ Len(text) >= Len(prefix)
    /\ SubSeq(text, 1, Len(prefix)) = prefix

\* &text[n..]
SliceFrom(text, n) == SubSeq(text, n + 1, Len(text))

\* str::trim, with the space as the only whitespace of the model
RECURSIVE trim(_)
trim(t) ==
    IF t = <<>> THEN t
    ELSE IF Head(t) = " " THEN trim(Tail(t))
    ELSE IF t[Len(t)] = " " THEN trim(SubSeq(t, 1, Len(t) - 1))
    ELSE t

Reply(what) == [handler |-> "reply", arg |-> what]

\* A faulty variant: "/search " is matched before "/search cf "
process_update_SearchFirst(text) ==
    IF text = Commands.start THEN Reply("hello")
    ELSE IF text = Commands.help THEN Reply("help")
    ELSE IF text = Commands.list THEN [handler |-> "list_links", arg |-> <<>>]
    ELSE IF text = Commands.upgrade
    THEN [handler |-> "upgrade_vector_index", arg |-> <<>>]
    ELSE IF starts_with(text, Commands.delete_vector)
    THEN IF trim(SliceFrom(text, 15)) = <<>> THEN Reply("usage")
         ELSE [handler |-> "delete_vector",
               arg |-> trim(SliceFrom(text, 15))]
    ELSE IF starts_with(text, Commands.insert)
    THEN IF trim(SliceFrom(text, 8)) = <<>> THEN Reply("usage")
         ELSE [handler |-> "insert_link", arg |-> trim(SliceFrom(text, 8))]
    ELSE IF starts_with(text, Commands.http) \/ starts_with(text, Commands.https)
    THEN [handler |-> "insert_link", arg |-> text]
    ELSE IF starts_with(text, Commands.search)
    THEN IF trim(SliceFrom(text, 8)) = <<>> THEN Reply("usage")
         ELSE [handler |-> "search_query", arg |-> SliceFrom(text, 8),
               search_from_cf |-> FALSE]
    ELSE IF starts_with(text, Commands.search_cf)
    THEN IF trim(SliceFrom(text, 11)) = <<>> THEN Reply("usage")
         ELSE [handler |-> "search_query", arg |-> SliceFrom(text, 11),
               search_from_cf |-> TRUE]
    ELSE IF starts_with(text, Commands.delete)
    THEN IF trim(SliceFrom(text, 8)) = <<>> THEN Reply("usage")
         ELSE [handler |-> "delete_link", arg |-> trim(SliceFrom(text, 8))]
    ELSE [handler |-> "search_query", arg |-> text, search_from_cf |-> FALSE]

\* process_update, for an authorized chat: the arms of `match text.as_str()`
\* in their order; the handler called and its argument, or a fixed reply
process_update(text) ==
    IF text = Commands.start THEN Reply("hello")
    ELSE IF text = Commands.help THEN Reply("help")
    ELSE IF text = Commands.list THEN [handler |-> "list_links", arg |-> <<>>]
    ELSE IF text = Commands.upgrade
    THEN [handler |-> "upgrade_vector_index", arg |-> <<>>]
    ELSE IF starts_with(text, Commands.delete_vector)
    THEN IF trim(SliceFrom(text, 15)) = <<>> THEN Reply("usage")
         ELSE [handler |-> "delete_vector",
               arg |-> trim(SliceFrom(text, 15))]
    ELSE IF starts_with(text, Commands.insert)
    THEN IF trim(SliceFrom(text, 8)) = <<>> THEN Reply("usage")
         ELSE [handler |-> "insert_link", arg |-> trim(SliceFrom(text, 8))]
    ELSE IF starts_with(text, Commands.http) \/ starts_with(text, Commands.https)
    THEN [handler |-> "insert_link", arg |-> text]
    ELSE IF starts_with(text, Commands.search_cf)
    THEN IF trim(SliceFrom(text, 11)) = <<>> THEN Reply("usage")
         ELSE [handler |-> "search_query", arg |-> SliceFrom(text, 11),
               search_from_cf |-> TRUE]
    ELSE IF starts_with(text, Commands.search)
    THEN IF trim(SliceFrom(text, 8)) = <<>> THEN Reply("usage")
         ELSE [handler |-> "search_query", arg |-> SliceFrom(text, 8),
               search_from_cf |-> FALSE]
    ELSE IF starts_with(text, Commands.delete)
    THEN IF trim(SliceFrom(text, 8)) = <<>> THEN Reply("usage")
         ELSE [handler |-> "delete_link", arg |-> trim(SliceFrom(text, 8))]
    ELSE [handler |-> "search_query", arg |-> text, search_from_cf |-> FALSE]

\* search_links(env, query, search_from_cf): the query function it calls
QueryBackend(query, search_from_cf) ==
    IF search_from_cf
    THEN <<[fn |-> "query_vectors_with_scores", query |-> query]>>
    ELSE <<[fn |-> "query_vectors_with_scores_vector_lite",
            query |-> query]>>

\* The index queries a message leads to
BackendCalls(d) ==
    IF d.handler = "search_query" THEN QueryBackend(d.arg, d.search_from_cf)
    ELSE <<>>

\* The texts of the model: a command word or nothing, then up to three
\* characters.
MessageTexts ==
    LET Tails ==
            {<<>>} \cup {<<a>> : a \in {" ", "q"}}
            \cup {<<a, b>> : a \in {" ", "q"}, b \in {" ", "q"}}
            \cup {<<a, b, c>> : a \in {" ", "q"}, b \in {" ", "q"},
                                c \in {" ", "q"}}
        Heads ==
            {<<>>, SubSeq(Commands.search_cf, 1, 10),
             SubSeq(Commands.search, 1, 7)}
            \cup {Commands[k] : k \in DOMAIN Commands}
    IN  {h \o t : h \in Heads, t \in Tails}

InitMessages ==
    /\ links = <<>>
    /\ embeddings = EmptyMap
    /\ vectorize = EmptyMap
    /\ vector_lite_bin = NoBlob
    /\ last = NoOp
    /\ runs = 0
    /\ workers_ai = <<>>
    /\ calls = <<>>
    /\ tasks = <<>>

\* process_update for one message; check_id decides whether the chat may
\* use the commands.
ProcessUpdate ==
    /\ last.op = "none"
    /\ \E text \in MessageTexts, authorized \in BOOLEAN :
        \E d \in {IF authorized THEN process_update(text)
                  ELSE Reply("not authorized")} :
            /\ last' = [op |-> "message", text |-> text,
                        authorized |-> authorized, dispatch |-> d]
            /\ calls' = BackendCalls(d)
    /\ UNCHANGED <<links, embeddings, vectorize, vector_lite_bin, runs,
                   workers_ai, tasks>>

SpecMessages == InitMessages /\ [][ProcessUpdate]_vars

-----------------------------------------------------------------------------
(* Two ingestions in flight: each is a task that stops at every await *)

\* A faulty variant: an empty index is returned when the blob is absent
get_vector_lite_OrNew(blob) ==
    IF blob.present THEN [ok |-> TRUE, index |-> FromBytes(blob)]
    ELSE [ok |-> TRUE, index |-> NewIndex]

\* get_vector_lite: the blob "vector_lite.bin", deserialized; Err when absent
get_vector_lite(blob) ==
    IF blob.present THEN [ok |-> TRUE, index |-> FromBytes(blob)]
    ELSE [ok |-> FALSE, index |-> NewIndex]

\* save_vector_lite: the blob is overwritten with the whole index
save_vector_lite(index) == ToBytes(index)

\* The chunk counts of the documents ingested where every step is a state
SmallChunkCounts == {1, 2}

\* An ingestion about to write its rows; `local` tells whether the embedded
\* index is written as well, `k` counts the vectors sent to the remote index,
\* `index` is the embedded index once the task has loaded it.
IngestTask(id, n, local) ==
    [id |-> id, n |-> n, local |-> local, pc |-> "db", k |-> 0,
     index |-> NewIndex]

\* The stores hold nothing or one document ingested before, the blob exists,
\* and two ingestions of two other documents have started.
InitConcurrent ==
    \E n1 \in SmallChunkCounts, n2 \in SmallChunkCounts, local \in BOOLEAN,
       ls \in {<<>>, <<DocInfo(StableDocIds[3], 1)>>} :
        /\ links = ls
        /\ embeddings = IngestedRows(ls)
        /\ vectorize = Ingested(ls)
        /\ vector_lite_bin = ToBytes(Ingested(ls))
        /\ last = NoOp
        /\ runs = 0
        /\ workers_ai = <<>>
        /\ calls = <<>>
        /\ tasks = <<IngestTask(StableDocIds[1], n1, local),
                     IngestTask(StableDocIds[2], n2, local)>>

\* save_link_to_db of task t
IngestDb(t) ==
    /\ tasks[t].pc = "db"
    /\ \E r \in {save_link_to_db(links, embeddings,
                                 DocInfo(tasks[t].id, tasks[t].n),
                                 ChunkEmbeddings(tasks[t].id, tasks[t].n),
                                 FALSE)} :
        /\ links' = r.links
        /\ embeddings' = r.db
    /\ tasks' = [tasks EXCEPT ![t].pc = "index"]
    /\ UNCHANGED <<vectorize, vector_lite_bin, last, runs, workers_ai, calls>>

\* insert_vector of the next chunk of task t
IngestIndex(t) ==
    /\ tasks[t].pc = "index"
    /\ \E r \in {insert_vector(vectorize, VectorId(tasks[t].id, tasks[t].k),
                     EmbeddingOf(VectorId(tasks[t].id, tasks[t].k)),
                     [sent |-> TRUE, status |-> 200])} :
        vectorize' = r.remote
    /\ tasks' = [tasks EXCEPT
                    ![t].k = @ + 1,
                    ![t].pc = IF tasks[t].k + 1 < tasks[t].n THEN "index"
                              ELSE IF tasks[t].local THEN "load" ELSE "done"]
    /\ UNCHANGED <<links, embeddings, vector_lite_bin, last, runs, workers_ai,
                   calls>>

\* get_vector_lite of task t
IngestLoad(t) ==
    /\ tasks[t].pc = "load"
    /\ \E r \in {get_vector_lite(vector_lite_bin)} :
        /\ r.ok
        /\ tasks' = [tasks EXCEPT ![t].index = r.index, ![t].pc = "save"]
    /\ UNCHANGED <<links, embeddings, vectorize, vector_lite_bin, last, runs,
                   workers_ai, calls>>

\* The vectors of task t are inserted into the index it loaded, and
\* save_vector_lite writes that index back.
IngestSave(t) ==
    /\ tasks[t].pc = "save"
    /\ vector_lite_bin' =
          save_vector_lite(InsertAll(tasks[t].index,
              InsertVectors(EmptyMap, tasks[t].id,
                            ChunkEmbeddings(tasks[t].id, tasks[t].n))))
    /\ tasks' = [tasks EXCEPT ![t].pc = "done"]
    /\ UNCHANGED <<links, embeddings, vectorize, last, runs, workers_ai,
                   calls>>

NextConcurrent ==
    \E t \in 1..Len(tasks) :
        \/ IngestDb(t)
        \/ IngestIndex(t)
        \/ IngestLoad(t)
        \/ IngestSave(t)

SpecConcurrent == InitConcurrent /\ [][NextConcurrent]_vars

-----------------------------------------------------------------------------
(* The query against the embedded index: two branches under join!, the    *)
(* embedding of the query text and the load of the snapshot.               *)

\* A faulty variant: the result of the load is examined first
query_vectors_with_scores_vector_lite_LoadFirst(query_vector, vector_lite, top_k) ==
    IF ~vector_lite.ok
    THEN [ok |-> FALSE, err |-> <<"Failed to get vector lite">>]
    ELSE IF ~query_vector.ok THEN [ok |-> FALSE, err |-> query_vector.err]
    ELSE [ok |-> TRUE,
          search |-> [ids |-> DOMAIN vector_lite.index,
                      vector |-> query_vector.vector, top_k |-> top_k,
                      metric |-> "Cosine"]]

\* query_vectors_with_scores_vector_lite after join! returned the results
\* of both branches: `query_vector?`, then `vector_lite?`, then the search,
\* written here as the call of search_with_metric that is made.
query_vectors_with_scores_vector_lite(query_vector, vector_lite, top_k) ==
    IF ~query_vector.ok THEN [ok |-> FALSE, err |-> query_vector.err]
    ELSE IF ~vector_lite.ok
    THEN [ok |-> FALSE, err |-> <<"Failed to get vector lite">>]
    ELSE [ok |-> TRUE,
          search |-> [ids |-> DOMAIN vector_lite.index,
                      vector |-> query_vector.vector, top_k |-> top_k,
                      metric |-> "Cosine"]]

\* A query in flight: each branch is at one of its awaits or done.
QueryTask(text, top_k) ==
    [text |-> text, top_k |-> top_k,
     embed |-> [pc |-> "first"], load |-> [pc |-> "get"],
     first |-> "none"]

\* A query has started; the next two replies of the embedding service are
\* fixed, the snapshot is absent, empty or holds one document.
InitLocalQuery ==
    \E text \in Texts, top_k \in TopKs,
       blob \in {NoBlob, ToBytes(NewIndex),
                 ToBytes(Ingested(<<DocInfo(StableDocIds[1], 1)>>))} :
        /\ links = <<>>
        /\ embeddings = EmptyMap
        /\ vectorize = EmptyMap
        /\ vector_lite_bin = blob
        /\ last = NoOp
        /\ runs = 0
        /\ calls = <<>>
        /\ workers_ai \in [1..2 -> Replies]
        /\ tasks = <<QueryTask(text, top_k)>>

\* The branch that is done first is noted.
Done(task, branch) ==
    IF task.first = "none" THEN [task EXCEPT !.first = branch] ELSE task

\* The embedding branch: generate_embedding_attempt, and once more when the
\* first attempt failed
EmbedBranch ==
    /\ tasks # <<>>
    /\ "embed" \in DOMAIN tasks[1]
    /\ tasks[1].embed.pc \in {"first", "retry"}
    /\ \E r \in {generate_embedding_attempt(
                    workers_ai[IF tasks[1].embed.pc = "first" THEN 1 ELSE 2])} :
        tasks' = IF r.ok \/ tasks[1].embed.pc = "retry"
                 THEN <<Done([tasks[1] EXCEPT !.embed =
                                 [pc |-> "done", result |-> r]], "embed")>>
                 ELSE <<[tasks[1] EXCEPT !.embed.pc = "retry"]>>
    /\ calls' = Append(calls, EmbeddingRequest(tasks[1].text))
    /\ UNCHANGED <<links, embeddings, vectorize, vector_lite_bin, last, runs,
                   workers_ai>>

\* The load branch: get_vector_lite
LoadBranch ==
    /\ tasks # <<>>
    /\ "load" \in DOMAIN tasks[1]
    /\ tasks[1].load.pc = "get"
    /\ tasks' = <<Done([tasks[1] EXCEPT !.load =
                           [pc |-> "done",
                            result |-> get_vector_lite(vector_lite_bin)]],
                       "load")>>
    /\ UNCHANGED <<links, embeddings, vectorize, vector_lite_bin, last, runs,
                   workers_ai, calls>>

\* join! returns when both branches are done
JoinBranches ==
    /\ tasks # <<>>
    /\ "embed" \in DOMAIN tasks[1]
    /\ tasks[1].embed.pc = "done"
    /\ tasks[1].load.pc = "done"
    /\ last' = [op |-> "local_query", text |-> tasks[1].text,
                top_k |-> tasks[1].top_k, first |-> tasks[1].first,
                result |-> query_vectors_with_scores_vector_lite(
                               tasks[1].embed.result, tasks[1].load.result,
                               tasks[1].top_k)]
    /\ tasks' = <<>>
    /\ UNCHANGED <<links, embeddings, vectorize, vector_lite_bin, runs,
                   workers_ai, calls>>

NextLocalQuery == EmbedBranch \/ LoadBranch \/ JoinBranches

SpecLocalQuery == InitLocalQuery /\ [][NextLocalQuery]_vars

-----------------------------------------------------------------------------
(* Search: chunk hits merged into a ranked list of documents *)

\* The documents of the corpus, in the order a hit list first names them;
\* every second id has a "-" of its own.
SearchDoc(i) == IF i % 2 = 0 THEN <<i, 9>> ELSE <<i>>

Scores == {1, 2, 3}

\* The hit lists a backend can return: up to MaxHits (vector_id, score)
\* pairs in any order of score, no vector id twice; the k-th hit of a document
\* is its chunk k - 1, and at most one hit is a second hit of its document.
DocsOf(hits) == {LinkIdOf(hits[i].id) : i \in 1..Len(hits)}

HitsOf(hits, doc) == {i \in 1..Len(hits) : LinkIdOf(hits[i].id) = doc}

Extend(h) ==
    {Append(h, [id |-> VectorId(SearchDoc(d),
                                Cardinality(HitsOf(h, SearchDoc(d)))),
                score |-> sc]) :
        d \in {e \in 1..(Cardinality(DocsOf(h)) + 1) :
                 \/ SearchDoc(e) \notin DocsOf(h)
                 \/ Len(h) = Cardinality(DocsOf(h))},
        sc \in Scores}

\* get_link_by_id: SELECT * FROM links WHERE id = ?, the first row if any
get_link_by_id(ls, id, fails) ==
    IF fails THEN [ok |-> FALSE, row |-> <<>>]
    ELSE LET rows == SelectSeq(ls, LAMBDA r : r.id = id)
         IN  IF rows = <<>> THEN [ok |-> TRUE, row |-> <<>>]
             ELSE [ok |-> TRUE, row |-> <<Head(rows)>>]

\* The number of documents a search returns at most.
TOP_DOCS == 5

\* Grouping: one entry per document, in first-seen order, with the maximum
\* of the scores of its hits and the list of its (score, chunk) pairs.
RECURSIVE GroupHits(_, _)
GroupHits(hits, groups) ==
    IF hits = <<>> THEN groups
    ELSE LET hit == Head(hits)
             doc == LinkIdOf(hit.id)
             chunk == hit.id[Len(hit.id)]
             at == {i \in 1..Len(groups) : groups[i].id = doc}
         IN  IF at = {}
             THEN GroupHits(Tail(hits),
                      Append(groups, [id |-> doc, max |-> hit.score,
                                      chunks |-> <<<<hit.score, chunk>>>>]))
             ELSE GroupHits(Tail(hits),
                      [i \in 1..Len(groups) |->
                          IF i \in at
                          THEN [id |-> doc,
                                max |-> IF hit.score > groups[i].max
                                        THEN hit.score ELSE groups[i].max,
                                chunks |-> Append(groups[i].chunks,
                                                  <<hit.score, chunk>>)]
                          ELSE groups[i]])

\* A faulty variant: a group goes before the groups of equal score
InsertByScore_Unstable(g, sorted) ==
    LET before == {i \in 1..Len(sorted) : sorted[i].max > g.max}
        k == Cardinality(before)
    IN  SubSeq(sorted, 1, k) \o <<g>> \o SubSeq(sorted, k + 1, Len(sorted))

\* Stable sort, descending by maximum score: a group goes after the groups
\* already placed whose score is not smaller.
InsertByScore(g, sorted) ==
    LET before == {i \in 1..Len(sorted) : sorted[i].max >= g.max}
        k == Cardinality(before)
    IN  SubSeq(sorted, 1, k) \o <<g>> \o SubSeq(sorted, k + 1, Len(sorted))

RECURSIVE SortByScore(_, _)
SortByScore(groups, sorted) ==
    IF groups = <<>> THEN sorted
    ELSE SortByScore(Tail(groups), InsertByScore(Head(groups), sorted))

\* A faulty variant: nothing is cut off
Truncate_All(sorted) == sorted

Truncate(sorted) == SubSeq(sorted, 1, Min(TOP_DOCS, Len(sorted)))

\* A faulty variant: a document whose lookup found no row is kept, without
\* its row
Resolve_KeepMissing(ls, ranked, failing) ==
    LET found == [i \in 1..Len(ranked) |->
                     get_link_by_id(ls, ranked[i].id, ranked[i].id \in failing)]
        kept == SelectSeq([i \in 1..Len(ranked) |-> i],
                          LAMBDA i : found[i].ok)
    IN  [i \in 1..Len(kept) |->
            [id |-> ranked[kept[i]].id, doc |-> found[kept[i]].row,
             score |-> ranked[kept[i]].max]]

\* Metadata of the surviving documents: one lookup each; a document whose
\* lookup fails or finds no row is left out, the others keep their order.
Resolve(ls, ranked, failing) ==
    LET found == [i \in 1..Len(ranked) |->
                     get_link_by_id(ls, ranked[i].id, ranked[i].id \in failing)]
        kept == SelectSeq([i \in 1..Len(ranked) |-> i],
                          LAMBDA i : found[i].ok /\ found[i].row # <<>>)
    IN  [i \in 1..Len(kept) |->
            [id |-> ranked[kept[i]].id, doc |-> found[kept[i]].row,
             score |-> ranked[kept[i]].max]]

\* A faulty variant: no early return for an empty hit list
search_links_NoShortCircuit(ls, hits, failing) ==
    LET groups == GroupHits(hits, <<>>)
        ranked == Truncate(SortByScore(groups, <<>>))
    IN  [ok |-> TRUE, grouped |-> TRUE,
         lookups |-> [i \in 1..Len(ranked) |-> ranked[i].id],
         result |-> Resolve(ls, ranked, failing)]

\* search_links, given the hits of the backend it asked
search_links(ls, hits, failing) ==
    IF hits = <<>>
    THEN [ok |-> TRUE, grouped |-> FALSE, lookups |-> <<>>, result |-> <<>>]
    ELSE LET groups == GroupHits(hits, <<>>)
             ranked == Truncate(SortByScore(groups, <<>>))
         IN  [ok |-> TRUE, grouped |-> TRUE,
              lookups |-> [i \in 1..Len(ranked) |-> ranked[i].id],
              result |-> Resolve(ls, ranked, failing)]

\* The corpus searched: every document a hit can name has its row, or the
\* row of the second is gone while the index still holds its vectors.
RECURSIVE Corpus(_)
Corpus(n) ==
    IF n = 0 THEN <<>> ELSE SaveLinkRow(Corpus(n - 1), DocInfo(SearchDoc(n), 2))

InitSearch ==
    \E gone \in BOOLEAN :
        /\ Stores(SelectSeq(Corpus(MaxHits),
                            LAMBDA r : ~(gone /\ r.id = SearchDoc(2))))
        /\ embeddings = EmptyMap
        /\ vectorize = EmptyMap

\* The backend puts one more match into its reply to the query.
QueryHit ==
    /\ last.op \in {"none", "query"}
    /\ \E h \in {IF last.op = "query" THEN last.hits ELSE <<>>} :
        /\ Len(h) < MaxHits
        /\ \E hits \in Extend(h) : last' = [op |-> "query", hits |-> hits]
    /\ UNCHANGED <<links, embeddings, vectorize, vector_lite_bin, runs,
                   workers_ai, calls, tasks>>

\* One search, given the reply of the backend; the lookup of the first
\* document may return an error.
SearchLinks ==
    /\ last.op \in {"none", "query"}
    /\ \E hits \in {IF last.op = "query" THEN last.hits ELSE <<>>},
          failing \in {{}, {SearchDoc(1)}} :
        \E r \in {search_links(links, hits, failing)} :
            /\ last' = [op |-> "search", hits |-> hits, failing |-> failing,
                        ok |-> r.ok, grouped |-> r.grouped,
                        lookups |-> r.lookups, result |-> r.result]
            /\ UNCHANGED <<links, embeddings, vectorize, vector_lite_bin,
                           runs, workers_ai, calls, tasks>>

NextSearch == QueryHit \/ SearchLinks

SpecSearch == InitSearch /\ [][NextSearch]_vars

-----------------------------------------------------------------------------
(* Deletion from the database *)

\* A faulty variant: the newest row is returned when no row has the url
find_link_by_url_AnyRow(ls, url, fault) ==
    IF fault = "find" THEN [ok |-> FALSE, err |-> "find"]
    ELSE IF ls = <<>> THEN [ok |-> FALSE, err |-> "Link not found"]
    ELSE IF \A i \in 1..Len(ls) : ls[i].url # url
    THEN [ok |-> TRUE, row |-> ls[1]]
    ELSE [ok |-> TRUE,
          row |-> ls[CHOOSE i \in 1..Len(ls) : ls[i].url = url]]

\* find_link_by_url: the row "SELECT * FROM links WHERE url = ? LIMIT 1"
\* returns, Err("Link not found") when there is none
find_link_by_url(ls, url, fault) ==
    IF fault = "find" THEN [ok |-> FALSE, err |-> "find"]
    ELSE IF \A i \in 1..Len(ls) : ls[i].url # url
    THEN [ok |-> FALSE, err |-> "Link not found"]
    ELSE [ok |-> TRUE,
          row |-> ls[CHOOSE i \in 1..Len(ls) :
                        /\ ls[i].url = url
                        /\ \A k \in 1..(i - 1) : ls[k].url # url]]

\* A faulty variant: the statement of the last chunk is missing
DeleteStatements_OffByOne(link_info, url) ==
    [i \in 1..(link_info.chunk_count - 1) |->
        [table |-> "embeddings", key |-> VectorId(link_info.id, i - 1)]]
    \o <<[table |-> "links", key |-> url]>>

\* The statements of the batch: one DELETE FROM embeddings WHERE vector_id = ?
\* per chunk, then DELETE FROM links WHERE url = ?
DeleteStatements(link_info, url) ==
    [i \in 1..link_info.chunk_count |->
        [table |-> "embeddings", key |-> VectorId(link_info.id, i - 1)]]
    \o <<[table |-> "links", key |-> url]>>

Keys(statements, table) ==
    {statements[i].key : i \in {k \in 1..Len(statements) :
                                    statements[k].table = table}}

\* A faulty variant: the statements on embeddings are not run
BatchEmbeddings_Kept(db, statements) == db

\* db.batch(statements): all of them, in one transaction
BatchEmbeddings(db, statements) ==
    [v \in DOMAIN db \ Keys(statements, "embeddings") |-> db[v]]

BatchLinks(ls, statements) ==
    SelectSeq(ls, LAMBDA row : row.url \notin Keys(statements, "links"))

DeleteFaults == {"none", "find", "batch"}

\* delete_link_and_embedding_by_url; `fault` is the step that returns Err
delete_link_and_embedding_by_url(ls, db, url, fault) ==
    Bind(find_link_by_url(ls, url, fault), LAMBDA found :
        IF ~found.ok
        THEN [ok |-> FALSE, err |-> found.err, links |-> ls, db |-> db,
              statements |-> <<>>]
        ELSE Bind(DeleteStatements(found.row, url), LAMBDA statements :
            IF fault = "batch"
            THEN [ok |-> FALSE, err |-> "batch", links |-> ls, db |-> db,
                  statements |-> statements]
            ELSE [ok |-> TRUE, err |-> "none", link_info |-> found.row,
                  links |-> BatchLinks(ls, statements),
                  db |-> BatchEmbeddings(db, statements),
                  statements |-> statements]))

(* The reply of the remote index to delete_by_ids: a status and a body,   *)
(* which is JSON or not; a JSON body is an object with its fields or some  *)
(* other value, and a field holds a boolean or something else.             *)
JsonFields ==
    {[type |-> "bool", bool |-> TRUE], [type |-> "bool", bool |-> FALSE],
     [type |-> "string"], [type |-> "number"], [type |-> "null"]}

JsonBodies ==
    {[json |-> FALSE], [json |-> TRUE, object |-> FALSE],
     [json |-> TRUE, object |-> TRUE, fields |-> EmptyMap]}
    \cup {[json |-> TRUE, object |-> TRUE,
           fields |-> [k \in {"success"} |-> v]] : v \in JsonFields}

DeleteReplies ==
    {[sent |-> FALSE, status |-> 0, body |-> Malformed]}
    \cup {[sent |-> TRUE, status |-> st, body |-> b] :
            st \in {200, 500}, b \in JsonBodies}

\* response_data.get("success").and_then(|v| v.as_bool()).unwrap_or(false)
SuccessFlag(body) ==
    IF ~body.object THEN FALSE
    ELSE IF "success" \notin DOMAIN body.fields THEN FALSE
    ELSE IF body.fields["success"].type # "bool" THEN FALSE
    ELSE body.fields["success"].bool

\* A faulty variant: the success flag of the body is not looked at
delete_vectors_by_prefix_StatusOnly(id_prefix, chunk_count, reply) ==
    LET vector_ids == [i \in 1..chunk_count |-> VectorId(id_prefix, i - 1)]
        response == post_request(reply)
    IN  IF ~response.ok
        THEN [ok |-> FALSE, err |-> response.err, ids |-> vector_ids]
        ELSE IF ~response.body.json
        THEN [ok |-> FALSE, err |-> <<"json">>, ids |-> vector_ids]
        ELSE [ok |-> TRUE, ids |-> vector_ids]

\* delete_vectors_by_prefix: the ids "{id_prefix}-{i}", i < chunk_count, are
\* posted to delete_by_ids and the reply is examined
delete_vectors_by_prefix(id_prefix, chunk_count, reply) ==
    LET vector_ids == [i \in 1..chunk_count |-> VectorId(id_prefix, i - 1)]
        response == post_request(reply)
    IN  IF ~response.ok
        THEN [ok |-> FALSE, err |-> response.err, ids |-> vector_ids]
        ELSE IF ~response.body.json
        THEN [ok |-> FALSE, err |-> <<"json">>, ids |-> vector_ids]
        ELSE IF ~SuccessFlag(response.body)
        THEN [ok |-> FALSE, err |-> <<"failure", response.body>>,
              ids |-> vector_ids]
        ELSE [ok |-> TRUE, ids |-> vector_ids]

\* What the remote index holds after a delete_by_ids request it answered
\* with `reply`: the ids are gone when it reports success.
DeleteByIds(remote, ids, reply) ==
    IF reply.sent /\ reply.status = 200 /\ reply.body.json
       /\ SuccessFlag(reply.body)
    THEN [v \in DOMAIN remote \ {ids[i] : i \in 1..Len(ids)} |-> remote[v]]
    ELSE remote

Urls == {UrlOf(StableDocIds[i]) : i \in 1..Len(StableDocIds)}

\* Documents ingested in any order, the embeddings table filled at ingestion
\* or not yet rebuilt.
InitDelete ==
    \E ls \in Listings(MaxDocs, {StableDocIds[i] : i \in 1..Len(StableDocIds)}),
       legacy \in BOOLEAN :
        /\ \A i, j \in 1..Len(ls) : i # j => ls[i].id # ls[j].id
        /\ Stores(ls)
        /\ embeddings = IF legacy THEN EmptyMap ELSE IngestedRows(ls)
        /\ vectorize = Ingested(ls)

DeleteByUrl ==
    \E url \in Urls, fault \in DeleteFaults :
        \E r \in {delete_link_and_embedding_by_url(links, embeddings, url,
                                                   fault)} :
            /\ r.err = fault \/ (fault = "none" /\ r.err = "Link not found")
            /\ links' = r.links
            /\ embeddings' = r.db
            /\ last' = [op |-> "delete", url |-> url, ok |-> r.ok,
                        err |-> r.err, statements |-> Len(r.statements),
                        link_info |-> IF r.ok THEN <<r.link_info>> ELSE <<>>]
            /\ UNCHANGED <<vectorize, vector_lite_bin, runs, workers_ai,
                           calls, tasks>>

\* The vectors of a document are deleted from the remote index.
DeleteVectorsByPrefix ==
    /\ last.op = "none"
    /\ \E i \in 1..Len(links), reply \in DeleteReplies :
        \E r \in {delete_vectors_by_prefix(links[i].id, links[i].chunk_count,
                                           reply)} :
            /\ vectorize' = DeleteByIds(vectorize, r.ids, reply)
            /\ last' = [op |-> "delete_vectors", id |-> links[i].id,
                        reply |-> reply, ok |-> r.ok, ids |-> Len(r.ids)]
            /\ UNCHANGED <<links, embeddings, vector_lite_bin, runs,
                           workers_ai, calls, tasks>>

NextDelete == DeleteByUrl

SpecDelete == InitDelete /\ [][NextDelete]_vars

\* One request to delete the vectors of a listed document from the remote
\* index, against every reply the index can give.
NextRemoteDelete == DeleteVectorsByPrefix

SpecRemoteDelete == InitDelete /\ [][NextRemoteDelete]_vars


-----------------------------------------------------------------------------
(* The command /delete_vector <id> *)

\* the chunk count delete_vector passes and loops over
DELETE_VECTOR_CHUNKS == 10

\* vector_lite.delete_by_id(id)
delete_by_id(index, id) == [v \in DOMAIN index \ {id} |-> index[v]]

RECURSIVE DeleteChunks(_, _, _)
\* for i in 0..n { vector_lite.delete_by_id(&format!("{}-{}", id, i)) }
DeleteChunks(index, id, n) ==
    IF n = 0 THEN index
    ELSE delete_by_id(DeleteChunks(index, id, n - 1), VectorId(id, n - 1))

\* delete_vector: the remote delete, the load of the embedded index, the
\* deletes from it and the save, each unwrapped: the command completes when
\* none of them returned Err, and panics at the first that did.
delete_vector(remote, blob, id, reply, saved) ==
    LET r == delete_vectors_by_prefix(id, DELETE_VECTOR_CHUNKS, reply)
        after == DeleteByIds(remote, r.ids, reply)
        loaded == get_vector_lite(blob)
    IN  IF ~r.ok
        THEN [completed |-> FALSE, step |-> "remote", remote |-> after,
              blob |-> blob]
        ELSE IF ~loaded.ok
        THEN [completed |-> FALSE, step |-> "load", remote |-> after,
              blob |-> blob]
        ELSE IF ~saved
        THEN [completed |-> FALSE, step |-> "save", remote |-> after,
              blob |-> blob]
        ELSE [completed |-> TRUE, step |-> "done", remote |-> after,
              blob |-> save_vector_lite(
                  DeleteChunks(loaded.index, id, DELETE_VECTOR_CHUNKS))]

\* Documents ingested before, the snapshot absent or rebuilt in full.
InitDeleteVector ==
    \E ls \in StableListings, rebuilt \in BOOLEAN :
        /\ links = ls
        /\ embeddings = IngestedRows(ls)
        /\ vectorize = Ingested(ls)
        /\ vector_lite_bin = IF rebuilt THEN ToBytes(Ingested(ls)) ELSE NoBlob
        /\ last = NoOp
        /\ runs = 0
        /\ workers_ai = <<>>
        /\ calls = <<>>
        /\ tasks = <<>>

DeleteVector ==
    /\ last.op = "none"
    /\ \E i \in 1..Len(StableDocIds), reply \in DeleteReplies,
          saved \in BOOLEAN :
        \E r \in {delete_vector(vectorize, vector_lite_bin, StableDocIds[i],
                                reply, saved)} :
            /\ vectorize' = r.remote
            /\ vector_lite_bin' = r.blob
            /\ last' = [op |-> "delete_vector", id |-> StableDocIds[i],
                        reply |-> reply, completed |-> r.completed,
                        step |-> r.step]
    /\ UNCHANGED <<links, embeddings, runs, workers_ai, calls, tasks>>

SpecDeleteVector == InitDeleteVector /\ [][DeleteVector]_vars

-----------------------------------------------------------------------------
(* Documents and urls: ingestion by url, a new id for every document *)

\* The ids Uuid::new_v4 hands out; `calls` holds the ones handed out so far.
Uuids == {StableDocIds[i] : i \in 1..Len(StableDocIds)}

DeleteOk ==
    [sent |-> TRUE, status |-> 200,
     body |-> [json |-> TRUE, object |-> TRUE,
               fields |-> [k \in {"success"} |->
                              [type |-> "bool", bool |-> TRUE]]]]

\* A faulty variant: the url is not looked up before the rows are written
insert_link_by_url_NoLookup(ls, db, remote, url, id, n) ==
    LET row == [DocInfo(id, n) EXCEPT !.url = url]
        embs == ChunkEmbeddings(id, n)
        saved == save_link_to_db(ls, db, row, embs, FALSE)
    IN  [ok |-> TRUE, step |-> "done", links |-> saved.links,
         db |-> saved.db, remote |-> InsertVectors(remote, id, embs)]

\* The ingestion of a url: a document is created once per distinct url, so
\* nothing is written when the url is stored already; otherwise the document
\* gets the new id, its rows are saved and its vectors are inserted.
insert_link_by_url(ls, db, remote, url, id, n) ==
    LET row == [DocInfo(id, n) EXCEPT !.url = url]
        embs == ChunkEmbeddings(id, n)
        saved == save_link_to_db(ls, db, row, embs, FALSE)
    IN  IF find_link_by_url(ls, url, "none").ok
        THEN [ok |-> FALSE, step |-> "exists", links |-> ls, db |-> db,
              remote |-> remote]
        ELSE [ok |-> TRUE, step |-> "done", links |-> saved.links,
              db |-> saved.db, remote |-> InsertVectors(remote, id, embs)]

\* The deletion of a url: the rows of the document, then its vectors in the
\* remote index
delete_link(ls, db, remote, url) ==
    LET deleted == delete_link_and_embedding_by_url(ls, db, url, "none")
    IN  IF ~deleted.ok
        THEN [ok |-> FALSE, links |-> ls, db |-> db, remote |-> remote,
              statements |-> <<>>]
        ELSE [ok |-> TRUE, links |-> deleted.links, db |-> deleted.db,
              link_info |-> deleted.link_info,
              statements |-> deleted.statements,
              remote |-> DeleteByIds(remote,
                  delete_vectors_by_prefix(deleted.link_info.id,
                      deleted.link_info.chunk_count, DeleteOk).ids,
                  DeleteOk)]

InitUrls ==
    /\ Stores(<<>>)
    /\ embeddings = EmptyMap
    /\ vectorize = EmptyMap

IngestUrl ==
    \E url \in Urls, id \in Uuids, n \in SmallChunkCounts :
        /\ \A i \in 1..Len(calls) : calls[i] # id
        /\ \E r \in {insert_link_by_url(links, embeddings, vectorize, url,
                                        id, n)} :
            /\ links' = r.links
            /\ embeddings' = r.db
            /\ vectorize' = r.remote
            /\ calls' = IF r.ok THEN Append(calls, id) ELSE calls
            /\ last' = [op |-> "ingest_url", url |-> url, id |-> id,
                        n |-> n, ok |-> r.ok,
                        stored |-> \E i \in 1..Len(links) :
                                        links[i].url = url,
                        rows |-> Len(links),
                        vector_ids |-> DOMAIN embeddings,
                        written |-> DOMAIN r.db \ DOMAIN embeddings]
        /\ UNCHANGED <<vector_lite_bin, runs, workers_ai, tasks>>

DeleteUrl ==
    \E url \in Urls :
        \E r \in {delete_link(links, embeddings, vectorize, url)} :
            /\ links' = r.links
            /\ embeddings' = r.db
            /\ vectorize' = r.remote
            /\ last' = [op |-> "delete_url", url |-> url, ok |-> r.ok,
                        link_info |-> IF r.ok THEN <<r.link_info>> ELSE <<>>,
                        deleted |-> Keys(r.statements, "embeddings")]
            /\ UNCHANGED <<vector_lite_bin, runs, workers_ai, calls, tasks>>

\* /upgrade between the ingestions and deletions, no step failing
UpgradeUrls ==
    /\ Upgrade(TRUE, "as_requested", NoFault)
    /\ UNCHANGED runs

NextUrls == IngestUrl \/ DeleteUrl \/ UpgradeUrls

SpecUrls == InitUrls /\ [][NextUrls]_vars

-----------------------------------------------------------------------------
(* Rebuilds, /delete_vector commands and queries of the embedded index,    *)
(* one after the other, over a listing that never changes                   *)

\* One /delete_vector command, against an index that answers success or
\* cannot be reached
DeleteVectorCmd ==
    \E i \in 1..Len(StableDocIds),
       reply \in {DeleteOk, [sent |-> FALSE, status |-> 0, body |-> Malformed]} :
        \E r \in {delete_vector(vectorize, vector_lite_bin, StableDocIds[i],
                                reply, TRUE)} :
            /\ vectorize' = r.remote
            /\ vector_lite_bin' = r.blob
            /\ last' = [op |-> "delete_vector", id |-> StableDocIds[i],
                        reply |-> reply, completed |-> r.completed,
                        step |-> r.step]
            /\ UNCHANGED <<links, embeddings, runs, workers_ai, calls, tasks>>

\* One or two documents of 1 or 22 chunks, ingested before; the snapshot is
\* absent or was rebuilt in full.
InitMaintenance ==
    \E n \in {1, 22}, m \in {0, 1, 22}, rebuilt \in BOOLEAN :
        \E ls \in {(IF m = 0 THEN <<>> ELSE <<DocInfo(StableDocIds[2], m)>>)
                      \o <<DocInfo(StableDocIds[1], n)>>} :
            /\ links = ls
            /\ embeddings = IngestedRows(ls)
            /\ vectorize = Ingested(ls)
            /\ vector_lite_bin =
                  IF rebuilt THEN ToBytes(Ingested(ls)) ELSE NoBlob
            /\ last = NoOp
            /\ runs = 0
            /\ workers_ai = <<>>
            /\ calls = <<>>
            /\ tasks = <<>>

\* One query against the embedded index, from the embedding of the text to
\* the result; nothing is written.
LocalQuery ==
    \E text \in Texts, replies \in EmbedReplies, top_k \in TopKs :
        \E embedded \in {generate_embeddings(text, replies)} :
            /\ calls' = embedded.calls
            /\ last' = [op |-> "local_query", text |-> text,
                        top_k |-> top_k,
                        result |-> query_vectors_with_scores_vector_lite(
                                       embedded.result,
                                       get_vector_lite(vector_lite_bin),
                                       top_k)]
            /\ UNCHANGED <<links, embeddings, vectorize, vector_lite_bin,
                           runs, workers_ai, tasks>>

NextMaintenance == DeleteVectorCmd \/ UpgradeUrls \/ LocalQuery

SpecMaintenance == InitMaintenance /\ [][NextMaintenance]_vars

-----------------------------------------------------------------------------
(* A rebuild that overlaps another rebuild or a /delete_vector command:    *)
(* each invocation is a task that stops at every await.                     *)

\* A rebuild about to read the blob.  `new_ids`, `j`, `i` and `vecs` are the
\* locals of the loop; `before` notes the blob and the table as the task
\* found them.
RebuildTask ==
    [kind |-> "rebuild", pc |-> "load", index |-> NewIndex, new_ids |-> <<>>,
     j |-> 1, i |-> 1, vecs |-> <<>>, before |-> <<>>]

\* A /delete_vector command about to send delete_by_ids
DeleteTask(id) ==
    [kind |-> "delete_vector", pc |-> "remote", id |-> id, index |-> NewIndex]

\* The loop of the rebuild once a chunk is finished: the next chunk, or the
\* save after the last one
NextChunk(task) ==
    IF task.j < NumBatches(task.new_ids)
    THEN [task EXCEPT !.j = @ + 1, !.pc = "get"]
    ELSE [task EXCEPT !.pc = "save"]

\* A faulty variant: a vector whose row the table holds is not inserted
upgrade_vector_index_step_SkipPresent(task, ls, db, remote, blob) ==
    LET chunk == Batch(task.new_ids, task.j)
        same == [task |-> task, db |-> db, blob |-> blob]
    IN  CASE task.pc = "load" ->
                [same EXCEPT !.task =
                    [task EXCEPT !.index = LoadIndex(blob, TRUE),
                                 !.before = [blob |-> blob, db |-> db],
                                 !.pc = "list"]]
          [] task.pc = "list" ->
                LET new_ids == NewIds(CanonicalIds(ls), task.index)
                IN  [same EXCEPT !.task =
                        [task EXCEPT !.new_ids = new_ids,
                                     !.pc = IF NumBatches(new_ids) = 0
                                            THEN "save" ELSE "get"]]
          [] task.pc = "get" ->
                LET vecs == get_vector_by_id(remote, chunk, "as_requested")
                IN  [same EXCEPT !.task =
                        IF ZipLen(chunk, vecs) = 0 THEN NextChunk(task)
                        ELSE [task EXCEPT !.vecs = vecs, !.i = 1,
                                          !.pc = "row"]]
          [] task.pc = "row" ->
                LET pair == chunk[task.i] :> task.vecs[task.i]
                    inserted == [task EXCEPT !.index =
                                    IF chunk[task.i] \in DOMAIN db THEN @
                                    ELSE InsertAll(@, pair)]
                IN  [same EXCEPT
                        !.db = UpsertRows(db, pair),
                        !.task = IF task.i < ZipLen(chunk, task.vecs)
                                 THEN [inserted EXCEPT !.i = @ + 1]
                                 ELSE NextChunk(inserted)]
          [] task.pc = "save" ->
                [same EXCEPT !.blob = ToBytes(task.index),
                             !.task = [task EXCEPT !.pc = "done"]]

\* upgrade_vector_index from one await to the next, no step failing:
\*   "load"  read_from_bucket and from_bytes, or new(4, 20);
\*   "list"  the table statement and get_all_links, then ids, skip(len());
\*   "get"   get_vector_by_id for the j-th chunk;
\*   "row"   stmt.run() for the i-th zipped pair, then index.insert;
\*   "save"  to_bytes and save_to_bucket.
upgrade_vector_index_step(task, ls, db, remote, blob) ==
    LET chunk == Batch(task.new_ids, task.j)
        same == [task |-> task, db |-> db, blob |-> blob]
    IN  CASE task.pc = "load" ->
                [same EXCEPT !.task =
                    [task EXCEPT !.index = LoadIndex(blob, TRUE),
                                 !.before = [blob |-> blob, db |-> db],
                                 !.pc = "list"]]
          [] task.pc = "list" ->
                LET new_ids == NewIds(CanonicalIds(ls), task.index)
                IN  [same EXCEPT !.task =
                        [task EXCEPT !.new_ids = new_ids,
                                     !.pc = IF NumBatches(new_ids) = 0
                                            THEN "save" ELSE "get"]]
          [] task.pc = "get" ->
                LET vecs == get_vector_by_id(remote, chunk, "as_requested")
                IN  [same EXCEPT !.task =
                        IF ZipLen(chunk, vecs) = 0 THEN NextChunk(task)
                        ELSE [task EXCEPT !.vecs = vecs, !.i = 1,
                                          !.pc = "row"]]
          [] task.pc = "row" ->
                LET pair == chunk[task.i] :> task.vecs[task.i]
                    inserted == [task EXCEPT !.index = InsertAll(@, pair)]
                IN  [same EXCEPT
                        !.db = UpsertRows(db, pair),
                        !.task = IF task.i < ZipLen(chunk, task.vecs)
                                 THEN [inserted EXCEPT !.i = @ + 1]
                                 ELSE NextChunk(inserted)]
          [] task.pc = "save" ->
                [same EXCEPT !.blob = ToBytes(task.index),
                             !.task = [task EXCEPT !.pc = "done"]]

\* delete_vector from one await to the next, the remote index answering
\* success:
\*   "remote" delete_vectors_by_prefix(&env, id, 10);
\*   "load"   get_vector_lite, whose Err is unwrapped (the task panics);
\*   "save"   the ten delete_by_id, then save_vector_lite.
delete_vector_step(task, remote, blob) ==
    LET same == [task |-> task, remote |-> remote, blob |-> blob]
        loaded == get_vector_lite(blob)
    IN  CASE task.pc = "remote" ->
                [same EXCEPT
                    !.remote = DeleteByIds(remote,
                        delete_vectors_by_prefix(task.id,
                            DELETE_VECTOR_CHUNKS, DeleteOk).ids, DeleteOk),
                    !.task = [task EXCEPT !.pc = "load"]]
          [] task.pc = "load" ->
                [same EXCEPT !.task =
                    IF loaded.ok
                    THEN [task EXCEPT !.index = loaded.index, !.pc = "save"]
                    ELSE [task EXCEPT !.pc = "panicked"]]
          [] task.pc = "save" ->
                [same EXCEPT
                    !.blob = save_vector_lite(
                        DeleteChunks(task.index, task.id,
                                     DELETE_VECTOR_CHUNKS)),
                    !.task = [task EXCEPT !.pc = "done"]]

\* The documents were ingested before (the rows written at ingestion or not
\* yet), the snapshot is absent or rebuilt in full; a rebuild starts together
\* with another rebuild or with a /delete_vector of the oldest document.
InitOverlap ==
    \E n \in {1, 22}, m \in {0, 1}, legacy \in BOOLEAN, rebuilt \in BOOLEAN,
       peer \in {RebuildTask, DeleteTask(StableDocIds[1])} :
        \E ls \in {(IF m = 0 THEN <<>> ELSE <<DocInfo(StableDocIds[2], m)>>)
                      \o <<DocInfo(StableDocIds[1], n)>>} :
            /\ links = ls
            /\ embeddings = IF legacy THEN EmptyMap ELSE IngestedRows(ls)
            /\ vectorize = Ingested(ls)
            /\ vector_lite_bin =
                  IF rebuilt THEN ToBytes(Ingested(ls)) ELSE NoBlob
            /\ last = NoOp
            /\ runs = 0
            /\ workers_ai = <<>>
            /\ calls = <<>>
            /\ tasks = <<RebuildTask, peer>>

\* The next step of a rebuild in flight
RebuildStep(t) ==
    /\ tasks[t].kind = "rebuild"
    /\ tasks[t].pc \notin {"done"}
    /\ \E r \in {upgrade_vector_index_step(tasks[t], links, embeddings,
                                           vectorize, vector_lite_bin)} :
        /\ tasks' = [tasks EXCEPT ![t] = r.task]
        /\ embeddings' = r.db
        /\ vector_lite_bin' = r.blob
    /\ UNCHANGED <<links, vectorize, last, runs, workers_ai, calls>>

\* The next step of a /delete_vector in flight
DeleteVectorStep(t) ==
    /\ tasks[t].kind = "delete_vector"
    /\ tasks[t].pc \notin {"done", "panicked"}
    /\ \E r \in {delete_vector_step(tasks[t], vectorize, vector_lite_bin)} :
        /\ tasks' = [tasks EXCEPT ![t] = r.task]
        /\ vectorize' = r.remote
        /\ vector_lite_bin' = r.blob
    /\ UNCHANGED <<links, embeddings, last, runs, workers_ai, calls>>

NextOverlap ==
    \E t \in 1..Len(tasks) :
        \/ RebuildStep(t)
        \/ DeleteVectorStep(t)

SpecOverlap == InitOverlap /\ [][NextOverlap]_vars

-----------------------------------------------------------------------------
(* The webhook: one update, from its arrival to the reply.  The stores are  *)
(* handed around as one record [links, db, remote, blob].                   *)

\* AUTHORIZED_CHAT_IDS, split at ',': each entry parses as an i64 or not
AuthorizedChatIds ==
    LET entry(n) == [parses |-> TRUE, id |-> n]
        junk == [parses |-> FALSE, id |-> 0]
    IN  {<<>>, <<entry(1)>>, <<junk, entry(2), entry(1)>>}

\* split(',').filter_map(|id_str| id_str.trim().parse::<i64>().ok())
get_authorized_chat_ids(var) ==
    LET parsed == SelectSeq(var, LAMBDA e : e.parses)
    IN  [i \in 1..Len(parsed) |-> parsed[i].id]

\* get_authorized_chat_ids(env).contains(&id)
check_id(var, id) ==
    \E i \in 1..Len(get_authorized_chat_ids(var)) :
        get_authorized_chat_ids(var)[i] = id

\* Update { message: Option<Message { chat, text: Option<String> }> }
Updates ==
    {[message |-> FALSE, has_text |-> FALSE, chat |-> 0, text |-> <<>>]}
    \cup {[message |-> TRUE, has_text |-> FALSE, chat |-> c, text |-> <<>>] :
            c \in {1, 2}}
    \cup {[message |-> TRUE, has_text |-> TRUE, chat |-> c, text |-> t] :
            c \in {1, 2}, t \in MessageTexts}

\* The document id a text spells: document <<1>> is the one named "q"
TextId(text) == IF text = <<"q">> THEN StableDocIds[1] ELSE StableDocIds[3]

Response(text, error) == [text |-> text, error |-> error]

\* The arm of the match that was taken, run to its response.  `fails` says
\* that the operation meets an error of its environment: the listing or the
\* search fails, get_all_links fails in the rebuild, the remote index cannot
\* be reached by delete_vector, the ingestion or the deletion returns Err.
\* The response is what is handed to send_message; delete_vector unwraps its
\* three results and panics where another handler returns an error text.
RunCommand(d, s, fails) ==
    LET out == [run |-> d.handler, failed |-> fails, panicked |-> FALSE,
                sent |-> <<Response(d.handler, fails)>>, stores |-> s]
    IN  CASE d.handler = "reply" ->
                [out EXCEPT !.run = "none", !.failed = FALSE,
                            !.sent = <<Response(d.arg, FALSE)>>]
          [] d.handler \in {"list_links", "search_query"} -> out
          [] d.handler = "upgrade_vector_index" ->
                LET r == upgrade_vector_index(s.links, s.db, s.remote, s.blob,
                             TRUE, "as_requested",
                             IF fails THEN [kind |-> "list", at |-> 0]
                             ELSE NoFault)
                IN  [out EXCEPT !.failed = ~r.ok,
                                !.sent = <<Response(d.handler, ~r.ok)>>,
                                !.stores.db = r.db, !.stores.blob = r.blob]
          [] d.handler = "delete_vector" ->
                LET r == delete_vector(s.remote, s.blob, TextId(d.arg),
                             IF fails
                             THEN [sent |-> FALSE, status |-> 0,
                                   body |-> Malformed]
                             ELSE DeleteOk, TRUE)
                IN  [out EXCEPT !.failed = ~r.completed,
                                !.panicked = ~r.completed,
                                !.sent = IF r.completed
                                         THEN <<Response("Vector deleted",
                                                         FALSE)>>
                                         ELSE <<>>,
                                !.stores.remote = r.remote,
                                !.stores.blob = r.blob]
          [] d.handler = "insert_link" ->
                LET r == insert_link_by_url(s.links, s.db, s.remote, d.arg,
                                            StableDocIds[3], 1)
                IN  IF fails THEN out
                    ELSE [out EXCEPT !.failed = ~r.ok,
                                     !.sent = <<Response(d.handler, ~r.ok)>>,
                                     !.stores.links = r.links,
                                     !.stores.db = r.db,
                                     !.stores.remote = r.remote]
          [] d.handler = "delete_link" ->
                LET r == delete_link(s.links, s.db, s.remote, d.arg)
                IN  IF fails THEN out
                    ELSE [out EXCEPT !.failed = ~r.ok,
                                     !.sent = <<Response(d.handler, ~r.ok)>>,
                                     !.stores.links = r.links,
                                     !.stores.db = r.db,
                                     !.stores.remote = r.remote]

\* A faulty variant: the command is run before the chat is checked
process_update_reply_CheckLast(update, var, s, fails) ==
    LET none == [run |-> "none", failed |-> FALSE, panicked |-> FALSE,
                 sent |-> <<>>, stores |-> s]
        ran == RunCommand(process_update(update.text), s, fails)
    IN  IF ~update.message THEN none
        ELSE IF ~update.has_text THEN none
        ELSE IF ~check_id(var, update.chat)
        THEN [ran EXCEPT !.sent = <<Response("not authorized", FALSE)>>]
        ELSE ran

\* process_update as a whole: nothing for an update without a message or
\* without a text, the not-authorized message for a chat check_id rejects,
\* otherwise the command and send_message with its response
process_update_reply(update, var, s, fails) ==
    LET none == [run |-> "none", failed |-> FALSE, panicked |-> FALSE,
                 sent |-> <<>>, stores |-> s]
    IN  IF ~update.message THEN none
        ELSE IF ~update.has_text THEN none
        ELSE IF ~check_id(var, update.chat)
        THEN [none EXCEPT !.sent = <<Response("not authorized", FALSE)>>]
        ELSE RunCommand(process_update(update.text), s, fails)

\* One document is stored, under the id "q" and the url "q"; its vector is
\* in the remote index and, when a rebuild has run, in the snapshot.
InitUpdates ==
    \E rebuilt \in BOOLEAN :
        \E ls \in {<<[DocInfo(StableDocIds[1], 1) EXCEPT !.url = <<"q">>]>>} :
            /\ links = ls
            /\ embeddings = IngestedRows(ls)
            /\ vectorize = Ingested(ls)
            /\ vector_lite_bin =
                  IF rebuilt THEN ToBytes(Ingested(ls)) ELSE NoBlob
            /\ last = NoOp
            /\ runs = 0
            /\ workers_ai = <<>>
            /\ calls = <<>>
            /\ tasks = <<>>

\* The webhook receives one update.
ReceiveUpdate ==
    /\ last.op = "none"
    /\ \E update \in Updates, var \in AuthorizedChatIds, fails \in BOOLEAN :
        \E r \in {process_update_reply(update,  var,
                      [links |-> links, db |-> embeddings,
                       remote |-> vectorize, blob |-> vector_lite_bin],
                      fails)} :
            /\ links' = r.stores.links
            /\ embeddings' = r.stores.db
            /\ vectorize' = r.stores.remote
            /\ vector_lite_bin' = r.stores.blob
            /\ last' = [op |-> "update", update |-> update,
                        authorized |-> check_id(var, update.chat),
                        run |-> r.run, failed |-> r.failed,
                        panicked |-> r.panicked, sent |-> r.sent]
    /\ UNCHANGED <<runs, workers_ai, calls, tasks>>

SpecUpdates == InitUpdates /\ [][ReceiveUpdate]_vars

-----------------------------------------------------------------------------
(* The extraction of a document: chunk_and_summary_link and its follow-up   *)
(* requests.  A text is the sequence of the pieces the service returned.    *)

\* let max_attempts = 10
MAX_ATTEMPTS == 10

\* What the extraction service can answer to one request: the request is not
\* delivered, or a status comes back and, with status 200, a body whose
\* finishReason and text are there or not.
GeminiReplies ==
    {[sent |-> FALSE, status |-> 0, finish |-> "absent", text |-> "absent"],
     [sent |-> TRUE, status |-> 500, finish |-> "absent", text |-> "absent"]}
    \cup {[sent |-> TRUE, status |-> 200, finish |-> f, text |-> t] :
            f \in {"STOP", "MAX_TOKENS", "absent"}, t \in {"a", "b", "absent"}}

\* gemini_api_request, given the reply to its request: Err when it is not
\* delivered, when the status is not 200 and when the body has no text;
\* was_truncated when finishReason is "MAX_TOKENS"
gemini_api_request(reply) ==
    IF ~reply.sent THEN [ok |-> FALSE, err |-> "send"]
    ELSE IF reply.status # 200 THEN [ok |-> FALSE, err |-> "status"]
    ELSE IF reply.text = "absent" THEN [ok |-> FALSE, err |-> "parse"]
    ELSE [ok |-> TRUE, text |-> reply.text,
          was_truncated |-> reply.finish = "MAX_TOKENS"]

\* A faulty variant: `attempt <= max_attempts` in the loop condition
chunk_and_summary_link_step_OneMore(task, reply, parses) ==
    LET r == gemini_api_request(reply)
        failed == [task EXCEPT !.pc = "done",
                               !.result = [ok |-> FALSE, err |-> r.err]]
        loop(t) == [t EXCEPT !.pc = IF t.was_truncated
                                       /\ t.attempt <= MAX_ATTEMPTS
                                    THEN "follow" ELSE "parse"]
    IN  CASE task.pc = "initial" ->
                IF ~r.ok THEN failed
                ELSE IF r.was_truncated
                THEN loop([task EXCEPT !.response_text = <<r.text>>,
                                       !.was_truncated = TRUE,
                                       !.attempt = 1])
                ELSE [task EXCEPT !.response_text = <<r.text>>,
                                  !.pc = "parse"]
          [] task.pc = "follow" ->
                IF ~r.ok THEN failed
                ELSE loop([task EXCEPT !.response_text = Append(@, r.text),
                                       !.was_truncated = r.was_truncated,
                                       !.attempt = @ + 1])
          [] task.pc = "parse" ->
                [task EXCEPT !.pc = "done",
                             !.result = IF parses THEN [ok |-> TRUE]
                                        ELSE [ok |-> FALSE, err |-> "data"]]

\* chunk_and_summary_link from one await to the next:
\*   "initial" the first request, whose Err is returned;
\*   "follow"  a request of `while was_truncated && attempt < max_attempts`,
\*             whose Err is returned and whose text is appended;
\*   "parse"   serde_json::from_str of the accumulated text (whether the text
\*             is a ProcessedLinkData is an input of the model).
chunk_and_summary_link_step(task, reply, parses) ==
    LET r == gemini_api_request(reply)
        failed == [task EXCEPT !.pc = "done",
                               !.result = [ok |-> FALSE, err |-> r.err]]
        loop(t) == [t EXCEPT !.pc = IF t.was_truncated
                                       /\ t.attempt < MAX_ATTEMPTS
                                    THEN "follow" ELSE "parse"]
    IN  CASE task.pc = "initial" ->
                IF ~r.ok THEN failed
                ELSE IF r.was_truncated
                THEN loop([task EXCEPT !.response_text = <<r.text>>,
                                       !.was_truncated = TRUE,
                                       !.attempt = 1])
                ELSE [task EXCEPT !.response_text = <<r.text>>,
                                  !.pc = "parse"]
          [] task.pc = "follow" ->
                IF ~r.ok THEN failed
                ELSE loop([task EXCEPT !.response_text = Append(@, r.text),
                                       !.was_truncated = r.was_truncated,
                                       !.attempt = @ + 1])
          [] task.pc = "parse" ->
                [task EXCEPT !.pc = "done",
                             !.result = IF parses THEN [ok |-> TRUE]
                                        ELSE [ok |-> FALSE, err |-> "data"]]

\* A call of chunk_and_summary_link has begun; `calls` will hold its requests.
InitSummary ==
    /\ links = <<>>
    /\ embeddings = EmptyMap
    /\ vectorize = EmptyMap
    /\ vector_lite_bin = NoBlob
    /\ last = NoOp
    /\ runs = 0
    /\ workers_ai = <<>>
    /\ calls = <<>>
    /\ tasks = <<[kind |-> "summary", pc |-> "initial", attempt |-> 0,
                  was_truncated |-> FALSE, response_text |-> <<>>,
                  result |-> [ok |-> FALSE, err |-> "none"]]>>

\* A request is sent and answered; the request carries the text so far as
\* previous_response, none for the first.
SummaryRequest ==
    /\ tasks[1].pc \in {"initial", "follow"}
    /\ \E reply \in GeminiReplies :
        /\ tasks' = <<chunk_and_summary_link_step(tasks[1], reply, TRUE)>>
        /\ workers_ai' = <<reply>>
    /\ calls' = Append(calls, [previous_response |-> tasks[1].response_text])
    /\ UNCHANGED <<links, embeddings, vectorize, vector_lite_bin, last, runs>>

\* The accumulated text is parsed and the call returns.
SummaryParse ==
    /\ tasks[1].pc = "parse"
    /\ \E parses \in BOOLEAN :
        tasks' = <<chunk_and_summary_link_step(tasks[1], workers_ai[1],
                                               parses)>>
    /\ UNCHANGED <<links, embeddings, vectorize, vector_lite_bin, last, runs,
                   workers_ai, calls>>

NextSummary == SummaryRequest \/ SummaryParse

SpecSummary == InitSummary /\ [][NextSummary]_vars

\* Every request is answered or fails (Fetch resolves), and the parse is
\* plain computation: a step that can be taken is taken.
FairSpecSummary == SpecSummary /\ WF_vars(NextSummary)

-----------------------------------------------------------------------------
(* Vector ids as the strings the program handles: a string is a sequence of *)
(* characters, '-' among them.                                              *)

MaxLen == 4             \* characters of a document id
MaxChunk == 11          \* largest chunk index formatted

Chars == {"a", "1", "-"}

RECURSIVE Strings(_)
Strings(n) ==
    IF n = 0 THEN {<<>>}
    ELSE Strings(n - 1) \cup
         {Append(t, c) : t \in {u \in Strings(n - 1) : Len(u) = n - 1},
                         c \in Chars}

DigitChars == <<"0", "1", "2", "3", "4", "5", "6", "7", "8", "9">>

\* Display of a usize: its decimal digits
RECURSIVE Display(_)
Display(n) ==
    IF n < 10 THEN <<DigitChars[n + 1]>>
    ELSE Append(Display(n \div 10), DigitChars[(n % 10) + 1])

\* format!("{}-{}", id, chunk)
format_vector_id(id, chunk) == id \o <<"-">> \o Display(chunk)

\* str::split(sep): the pieces between the separators, empty ones included
RECURSIVE split(_, _)
split(str, sep) ==
    IF \A i \in 1..Len(str) : str[i] # sep THEN <<str>>
    ELSE LET i == CHOOSE k \in 1..Len(str) :
                      str[k] = sep /\ \A m \in 1..(k - 1) : str[m] # sep
         IN  <<SubSeq(str, 1, i - 1)>>
                 \o split(SubSeq(str, i + 1, Len(str)), sep)

\* [&str]::join(sep)
RECURSIVE join(_, _)
join(parts, sep) ==
    IF parts = <<>> THEN <<>>
    ELSE IF Len(parts) = 1 THEN parts[1]
    ELSE parts[1] \o <<sep>> \o join(Tail(parts), sep)

\* A faulty variant: the first token is taken for the document id
parse_link_id_FirstToken(vector_id) == split(vector_id, "-")[1]

\* let parts = id.split('-').collect(); parts[0..parts.len() - 1].join("-")
parse_link_id(vector_id) ==
    LET parts == split(vector_id, "-")
    IN  join(SubSeq(parts, 1, Len(parts) - 1), "-")

InitIds == Stores(<<>>) /\ embeddings = EmptyMap /\ vectorize = EmptyMap

\* The id of one chunk is formatted, and parsed as the rebuild parses it for
\* the link_id column of the row it writes.
ParseVectorId ==
    \E id \in Strings(MaxLen), chunk \in 0..MaxChunk :
        /\ last.op = "none"
        /\ last' = [op |-> "parse", id |-> id, chunk |-> chunk,
                    vector_id |-> format_vector_id(id, chunk),
                    link_id |-> parse_link_id(format_vector_id(id, chunk))]
        /\ UNCHANGED <<links, embeddings, vectorize, vector_lite_bin, runs,
                       workers_ai, calls, tasks>>

NextIds == ParseVectorId

SpecIds == InitIds /\ [][NextIds]_vars

-----------------------------------------------------------------------------
(* Properties *)

SnapshotIds ==
    IF vector_lite_bin.present THEN DOMAIN FromBytes(vector_lite_bin) ELSE {}

SnapshotLen == Cardinality(SnapshotIds)

Upgraded == last.op = "upgrade"

\* C1 (as stated): over a listing that never changes, with no failing step
\* and from an absent snapshot, the k-th invocation leaves min(N, k * 20 * 15)
\* ids in the index, and an invocation started with all N ids in the index
\* reports migrated == total and writes nothing at all.
C1_Watermark ==
    /\ runs = 0 => ~vector_lite_bin.present
    /\ (runs > 0 /\ runs < MaxRuns) =>
            SnapshotLen = Min(TotalIds(links), runs * 20 * 15)
    /\ runs = MaxRuns => SnapshotLen >= Min(TotalIds(links), runs * 20 * 15)

Converged == vector_lite_bin.present /\ SnapshotLen = TotalIds(links)

C2_Idempotent ==
    [][(Converged /\ last'.op = "upgrade") =>
            /\ vector_lite_bin' = vector_lite_bin
            /\ embeddings' = embeddings]_vars

FirstId == VectorId(Head(links).id, 0)

C4_NewestSkipped ==
    [][(/\ links # <<>> /\ Head(links).chunk_count > 0
        /\ vector_lite_bin.present /\ FirstId \notin SnapshotIds
        /\ last'.op = "upgrade" /\ last'.start > 0)
       => FirstId \notin SnapshotIds']_vars

\* ... and such an invocation is reached that reports migrated == total
\* after processing again an id the index held.
C4_Witness ==
    /\ Upgraded /\ last.ok /\ last.start > 0 /\ last.rows > 0
    /\ last.migrated = last.total
    /\ SnapshotLen = last.start
    /\ links # <<>> /\ Head(links).chunk_count > 0
    /\ FirstId \notin SnapshotIds

\* C5: an invocation sends at most 15 get_by_ids requests of at most 20 ids
\* each, writes at most 300 rows and adds at most 300 ids to the index.
C5_BoundedWork ==
    Upgraded =>
        /\ Len(last.requests) <= 15
        /\ \A i \in 1..Len(last.requests) : last.requests[i] <= 20
        /\ last.rows <= 300
        /\ last.ok => SnapshotLen <= last.start + 300

C5_Witness ==
    /\ Upgraded /\ last.ok
    /\ TotalIds(links) - last.start > 300
    /\ Len(last.requests) = 15 /\ last.rows = 300
    /\ SnapshotLen = last.start + 300

\* C6: an invocation that fails before the blob is written leaves the blob
\* as it was, and the next invocation, when no step of it fails, starts from
\* the same watermark and leaves the same blob and rows as it would have
\* left without the failed one.
Resumed ==
    Bind(upgrade_vector_index(links, embeddings, vectorize, vector_lite_bin,
                              TRUE, "as_requested", NoFault),
         LAMBDA r : <<r.start, r.blob, r.db>>)

FailedBeforeSave(l) ==
    l.op = "upgrade" /\ ~l.ok /\ l.err \in {"table", "list", "get", "row"}

\* (Resumed reads links, embeddings, vectorize and the blob only: it is
\* computed when the failed invocation changed one of them.)
C6_SafeToRerun ==
    [][FailedBeforeSave(last') =>
            /\ vector_lite_bin' = vector_lite_bin
            /\ \/ <<links, embeddings, vectorize>>'
                      = <<links, embeddings, vectorize>>
               \/ Resumed' = Resumed]_vars

C6_Witness ==
    /\ Upgraded /\ ~last.ok /\ last.err = "row" /\ last.rows = 299
    /\ Cardinality(DOMAIN embeddings) = 299

\* C7: when the blob exists the invocation starts from its content, and
\* the blob it writes keeps every entry the blob had.
C7_StartsFromSnapshot ==
    [][(vector_lite_bin.present /\ last'.op = "upgrade") =>
            /\ last'.start = SnapshotLen
            /\ last'.saved =>
                    \A id \in SnapshotIds :
                        /\ id \in SnapshotIds'
                        /\ FromBytes(vector_lite_bin')[id]
                               = FromBytes(vector_lite_bin)[id]]_vars

\* C8: a successful invocation returns the number of canonical ids and the
\* number of entries of the snapshot it wrote.
C8_ReturnValue ==
    (Upgraded /\ last.ok) =>
        /\ last.total = TotalIds(links)
        /\ last.migrated = SnapshotLen

\* C9: one attempt when the first succeeds, whose vector is returned; two
\* attempts with the same request when the first fails, and then the result
\* of the second attempt, vector or error; never a third attempt.
Embedded == last.op = "embed"

C9_RetryOnce ==
    Embedded =>
        LET first == generate_embedding_attempt(workers_ai[1])
            second == generate_embedding_attempt(workers_ai[2])
        IN  /\ first.ok => (Len(calls) = 1 /\ last.result = first)
            /\ ~first.ok => (Len(calls) = 2 /\ last.result = second)
            /\ \A i \in 1..Len(calls) : calls[i] = [text |-> <<last.text>>]

C9_Witness ==
    /\ Embedded /\ Len(calls) = 2 /\ last.result.ok
    /\ ~generate_embedding_attempt(workers_ai[1]).ok

\* C10 (as stated): an attempt fails exactly when the status is not 200
\* (or no status comes back), the response has success = false or its data
\* array is empty; on success the result is the first element of data.
UsedReply == workers_ai[Len(calls)]

StatedFailure(reply) ==
    \/ ~reply.sent
    \/ reply.status # 200
    \/ reply.body.json /\ ~reply.body.success
    \/ reply.body.json /\ reply.body.data = <<>>

C10_StatedCases ==
    Embedded => (last.result.ok <=> ~StatedFailure(UsedReply))

\* C10 (amended): it also fails when the body is not an EmbeddingResponse.
AttemptFails(reply) ==
    \/ ~reply.sent
    \/ reply.status # 200
    \/ ~reply.body.json
    \/ ~reply.body.success
    \/ reply.body.data = <<>>

C10_AttemptCases ==
    Embedded =>
        /\ last.result.ok <=> ~AttemptFails(UsedReply)
        /\ Len(calls) = 2 <=> AttemptFails(workers_ai[1])
        /\ last.result.ok => last.result.vector = UsedReply.body.data[1]

C10_Witness ==
    /\ Embedded /\ last.result.ok
    /\ Len(UsedReply.body.data) = 2
    /\ last.result.vector = <<8>>

\* C11: splitting "{document_id}-{chunk_index}" on '-' and joining all tokens
\* but the last with '-' gives back the document id, hyphens included.
Parsed == last.op = "parse"

C11_RoundTrip == Parsed => last.link_id = last.id

C11_Witness ==
    /\ Parsed /\ last.id = <<"a", "-", "-", "1">> /\ last.chunk = 10
    /\ last.vector_id = <<"a", "-", "-", "1", "-", "1", "0">>
    /\ last.link_id = last.id

\* C12: a successful delete_link_and_embedding_by_url leaves no embeddings
\* row of the document and no links row of the url, and leaves the rows of
\* the other documents as they were.
Deleted(l) == l.op = "delete" /\ l.ok

C12_DeletePath ==
    [][Deleted(last') =>
        LET doc == last'.link_info[1]
        IN  /\ last'.statements = doc.chunk_count + 1
            /\ \A v \in DOMAIN embeddings' :
                    embeddings'[v].link_id # doc.id
            /\ \A i \in 1..Len(links') : links'[i].url # last'.url
            /\ links' = SelectSeq(links, LAMBDA row : row.id # doc.id)
            /\ \A v \in DOMAIN embeddings :
                    embeddings[v].link_id # doc.id =>
                        /\ v \in DOMAIN embeddings'
                        /\ embeddings'[v] = embeddings[v]
            /\ DOMAIN embeddings' \subseteq DOMAIN embeddings]_vars

C12_Witness ==
    /\ Deleted(last) /\ last.link_info[1].chunk_count = 305
    /\ Len(links) = 1 /\ Cardinality(DOMAIN embeddings) = 22

\* C13: when no links row has the url, delete_link_and_embedding_by_url
\* returns an error, issues no delete statement and changes neither table.
Unlisted(url) == \A i \in 1..Len(links) : links[i].url # url

C13_DeleteUnknown ==
    [][(last'.op = "delete" /\ Unlisted(last'.url)) =>
            /\ ~last'.ok
            /\ last'.statements = 0
            /\ links' = links
            /\ embeddings' = embeddings]_vars

C13_Witness ==
    /\ last.op = "delete" /\ last.err = "Link not found"
    /\ Unlisted(last.url) /\ last.statements = 0
    /\ Len(links) = 2 /\ Cardinality(DOMAIN embeddings) = 327

\* C14: delete_vectors_by_prefix returns Ok only when the body of the reply
\* has a boolean "success" field that is true; with status 200 it returns an
\* error when the field is false, missing or not a boolean.
RemoteDeleted == last.op = "delete_vectors"

SuccessIsTrue(reply) ==
    /\ reply.body.json /\ reply.body.object
    /\ "success" \in DOMAIN reply.body.fields
    /\ reply.body.fields["success"] = [type |-> "bool", bool |-> TRUE]

C14_SuccessFlag ==
    RemoteDeleted =>
        /\ last.ok => (last.reply.status = 200 /\ SuccessIsTrue(last.reply))
        /\ (last.reply.status = 200 /\ SuccessIsTrue(last.reply)) => last.ok

C14_Witness ==
    /\ RemoteDeleted /\ ~last.ok /\ last.reply.status = 200
    /\ last.reply.body.json /\ last.reply.body.object
    /\ "success" \in DOMAIN last.reply.body.fields
    /\ last.reply.body.fields["success"].type = "string"

\* C15: an ingestion in which the embedding of a chunk fails after its retry,
\* or in which the remote index answers an insert with a non-success status,
\* returns an error, the error of the first step that failed, and never Ok.
Ingest == last.op = "ingest"

EmbedFails ==
    /\ last.fault.at <= last.n
    /\ \A k \in 1..2 : last.fault.embed[k] # GoodReply

IndexFails ==
    /\ last.fault.at <= last.n
    /\ ~(last.fault.insert.sent /\ last.fault.insert.status = 200)

FailedChunk == VectorId(last.id, last.fault.at - 1)

Searched == last.op = "search"

MaxScore(hits, doc) ==
    CHOOSE m \in {hits[k].score : k \in HitsOf(hits, doc)} :
        \A k \in HitsOf(hits, doc) : hits[k].score <= m

FirstSeen(hits, doc) ==
    CHOOSE k \in HitsOf(hits, doc) : \A j \in HitsOf(hits, doc) : k <= j

ExampleHits ==
    <<[id |-> VectorId(SearchDoc(1), 0), score |-> 3],
      [id |-> VectorId(SearchDoc(1), 1), score |-> 1],
      [id |-> VectorId(SearchDoc(2), 0), score |-> 2]>>

ResultIds == [i \in 1..Len(last.result) |-> last.result[i].id]

LookupOk(doc) ==
    /\ doc \notin last.failing
    /\ \E i \in 1..Len(links) : links[i].id = doc

HighestOf(hits, docs) ==
    \A d \in docs, e \in DocsOf(hits) \ docs :
        MaxScore(hits, d) >= MaxScore(hits, e)

ResultDocs == {last.result[i].id : i \in 1..Len(last.result)}

LookedUp == {last.lookups[i] : i \in 1..Len(last.lookups)}

C19_EmptyHits ==
    (Searched /\ last.hits = <<>>) =>
        /\ last.ok
        /\ last.result = <<>>
        /\ ~last.grouped
        /\ last.lookups = <<>>

C19_Witness ==
    /\ Searched /\ last.hits = <<>> /\ last.result = <<>>
    /\ Len(links) = MaxHits

BothIngested ==
    /\ Len(tasks) = 2
    /\ \A t \in 1..2 : "n" \in DOMAIN tasks[t] /\ tasks[t].pc = "done"

TaskIds(t) == {VectorId(tasks[t].id, c) : c \in 0..(tasks[t].n - 1)}

C21_ConcurrentIngestions ==
    BothIngested =>
        \A t \in 1..2 :
            /\ TaskIds(t) \subseteq DOMAIN embeddings
            /\ TaskIds(t) \subseteq DOMAIN vectorize
            /\ tasks[t].local => TaskIds(t) \subseteq vector_lite_bin.ids

\* C22: query_vectors_with_scores embeds the query text first, then returns
\* the matches of the index as (id, score) in the order of the index, none
\* added, dropped or moved; it returns an error and no pairs when the
\* embedding fails, when the status is not 200 and when success is false.
Queried == "op" \in DOMAIN last /\ last.op = "query"

AttemptOk(reply) ==
    /\ reply.sent
    /\ reply.status = 200
    /\ reply.body.json
    /\ reply.body.success
    /\ reply.body.data # <<>>

QueryEmbedded == \E i \in 1..2 : AttemptOk(workers_ai[i])

IsQueryRequest(c) == "top_k" \in DOMAIN c

C22_RemoteQuery ==
    Queried =>
        /\ ~QueryEmbedded =>
              /\ ~last.result.ok
              /\ \A i \in 1..Len(calls) : ~IsQueryRequest(calls[i])
        /\ (QueryEmbedded /\ last.reply.sent /\ last.reply.status # 200)
              => ~last.result.ok
        /\ (QueryEmbedded /\ last.reply.body.json
              /\ ~last.reply.body.success) => ~last.result.ok
        /\ ~last.result.ok => "pairs" \notin DOMAIN last.result
        /\ last.result.ok =>
              /\ Len(calls) >= 2
              /\ IsQueryRequest(calls[Len(calls)])
              /\ \A i \in 1..(Len(calls) - 1) :
                    calls[i] = EmbeddingRequest(last.text)
              /\ Len(last.result.pairs) = Len(last.reply.body.matches)
              /\ \A i \in 1..Len(last.result.pairs) :
                    /\ last.result.pairs[i][1] = last.reply.body.matches[i].id
                    /\ last.result.pairs[i][2]
                          = last.reply.body.matches[i].score

\* The retry of the embedding succeeded and the index answered three matches,
\* the best one last and twice.
C22_Witness ==
    /\ Queried
    /\ last.result.ok
    /\ Len(calls) = 3
    /\ Len(last.result.pairs) = 3
    /\ last.result.pairs[1][2] < last.result.pairs[2][2]
    /\ last.result.pairs[2] = last.result.pairs[3]

\* C23: a search is run against one index, chosen by the flag alone: the
\* remote index for a message that begins with "/search cf ", the embedded
\* index for any other message that begins with "/search " and for a text
\* that is no command.
Received == "op" \in DOMAIN last /\ last.op = "message"

Searches == last.dispatch.handler = "search_query"

IsCommand(text) ==
    \/ text \in {Commands.start, Commands.help, Commands.list, Commands.upgrade}
    \/ \E p \in {Commands.delete_vector, Commands.insert, Commands.http, Commands.https,
                 Commands.search_cf, Commands.search, Commands.delete} :
          starts_with(text, p)

NotBlank(t) == \E i \in 1..Len(t) : t[i] # " "

C23_BackendSelection ==
    (Received /\ last.authorized) =>
        /\ Len(calls) <= 1
        /\ Searches <=> Len(calls) = 1
        /\ Searches =>
              (calls[1].fn = "query_vectors_with_scores"
                  <=> last.dispatch.search_from_cf)
        /\ starts_with(last.text, Commands.search_cf) =>
              IF NotBlank(SliceFrom(last.text, 11))
              THEN calls = <<[fn |-> "query_vectors_with_scores",
                              query |-> SliceFrom(last.text, 11)]>>
              ELSE calls = <<>>
        /\ (starts_with(last.text, Commands.search)
              /\ ~starts_with(last.text, Commands.search_cf)) =>
              IF NotBlank(SliceFrom(last.text, 8))
              THEN calls = <<[fn |-> "query_vectors_with_scores_vector_lite",
                              query |-> SliceFrom(last.text, 8)]>>
              ELSE calls = <<>>
        /\ ~IsCommand(last.text) =>
              calls = <<[fn |-> "query_vectors_with_scores_vector_lite",
                         query |-> last.text]>>

\* "/search cf q q" was received and the remote index was queried for "q q".
C23_Witness ==
    /\ Received
    /\ last.authorized
    /\ last.text = Commands.search_cf \o <<"q", " ", "q">>
    /\ calls = <<[fn |-> "query_vectors_with_scores",
                  query |-> <<"q", " ", "q">>]>>

\* C24: after any sequence of ingestions and deletions the links table holds
\* at most one row per url, and the ingestion of a url that is stored adds no
\* links row and no embeddings row.
IngestedUrl == "op" \in DOMAIN last /\ last.op = "ingest_url"

C25_OwnVector ==
    /\ \A v \in DOMAIN embeddings :
          v \in DOMAIN vectorize => embeddings[v].vector = vectorize[v]
    /\ vector_lite_bin.present =>
          \A v \in vector_lite_bin.ids :
              /\ v \in DOMAIN vectorize
              /\ vector_lite_bin.vectors[v] = vectorize[v]

\* C26: from an absent snapshot, over a listing that never changes and with
\* no deletions, the snapshot a successful invocation leaves holds exactly
\* the first len() canonical ids, so that the ids the next invocation skips
\* are the ids the index holds.
C26_PrefixWatermark ==
    (Upgraded /\ last.ok) =>
        /\ vector_lite_bin.present
        /\ SnapshotLen <= TotalIds(links)
        /\ SnapshotIds =
              {CanonicalIds(links)[i] : i \in 1..SnapshotLen}

\* C27: for a document with chunk_count = N, the vector ids save_link_to_db
\* writes, the ids the rebuild enumerates and the ids the delete path deletes
\* are each exactly "{id}-0" .. "{id}-(N-1)"; save_link_to_db writes
\* row.chunk_count embeddings rows.
Dense(id, n) == {Append(id, i) : i \in 0..(n - 1)}

RowOf(id) == links[CHOOSE i \in 1..Len(links) : links[i].id = id]

C27_DenseIds ==
    /\ (IngestedUrl /\ last.ok) =>
          /\ last.written = Dense(last.id, RowOf(last.id).chunk_count)
          /\ Cardinality(last.written) = RowOf(last.id).chunk_count
    /\ (Upgraded /\ last.ok /\ last.start = 0) =>
          /\ SnapshotIds =
                UNION {Dense(links[i].id, links[i].chunk_count) :
                          i \in 1..Len(links)}
          /\ last.total = Cardinality(SnapshotIds)
    /\ ("op" \in DOMAIN last /\ last.op = "delete_url" /\ last.ok) =>
          last.deleted = Dense(last.link_info[1].id,
                               last.link_info[1].chunk_count)

\* A document of two chunks was ingested, a rebuild ran, and the document was
\* deleted with the two ids it was written with.
C27_Witness ==
    /\ "op" \in DOMAIN last /\ last.op = "delete_url" /\ last.ok
    /\ last.link_info[1].chunk_count = 2
    /\ Cardinality(last.deleted) = 2
    /\ last.deleted \subseteq SnapshotIds

\* C28: once delete_vector has completed for a document id, neither the
\* remote index nor the snapshot holds a vector id of that document, whatever
\* its chunk_count.
C28_DeleteVector ==
    ("op" \in DOMAIN last /\ last.op = "delete_vector" /\ last.completed) =>
        \A v \in DOMAIN vectorize \cup SnapshotIds : LinkIdOf(v) # last.id

\* C29: the query against the embedded index awaits both the embedding and
\* the load of the snapshot; whichever is done first, it returns the
\* embedding error when the embedding failed, the load error when only the
\* load failed, and it searches exactly when both succeeded.
LocalQueried == "op" \in DOMAIN last /\ last.op = "local_query"

C29_JoinedBranches ==
    LocalQueried =>
        /\ last.first \in {"embed", "load"}
        /\ Len(calls) = (IF AttemptOk(workers_ai[1]) THEN 1 ELSE 2)
        /\ ~QueryEmbedded =>
              /\ ~last.result.ok
              /\ last.result.err # <<"Failed to get vector lite">>
        /\ (QueryEmbedded /\ ~vector_lite_bin.present) =>
              /\ ~last.result.ok
              /\ last.result.err = <<"Failed to get vector lite">>
        /\ last.result.ok <=> (QueryEmbedded /\ vector_lite_bin.present)
        /\ "search" \in DOMAIN last.result <=> last.result.ok
        /\ last.result.ok =>
              /\ last.result.search.ids = SnapshotIds
              /\ last.result.search.top_k = last.top_k
              /\ \E i \in 1..2 :
                    /\ AttemptOk(workers_ai[i])
                    /\ last.result.search.vector = workers_ai[i].body.data[1]

\* Both branches failed, the load was done first (the embedding was retried),
\* and the error returned is the one of the embedding.
C29_Witness ==
    /\ LocalQueried
    /\ last.first = "load"
    /\ Len(calls) = 2
    /\ ~vector_lite_bin.present
    /\ ~last.result.ok
    /\ last.result.err # <<"Failed to get vector lite">>

\* C30: with no deletions, after any sequence of rebuild invocations, failed
\* at any step or not, every vector id of the snapshot has a row in the
\* embeddings table.
C30_TableCoversSnapshot == SnapshotIds \subseteq DOMAIN embeddings

\* A snapshot of 22 ids was written, a document was ingested, and the next
\* invocation failed at its 300th row write.
C30_Witness ==
    /\ Upgraded /\ ~last.ok /\ last.err = "row" /\ last.rows = 299
    /\ SnapshotLen = 22
    /\ Len(links) = 2

\* C31: after any sequence of ingestions, deletions and rebuild invocations,
\* a successful invocation returns migrated <= total, and migrated is the
\* number of entries of the snapshot it has just written.
C31_ProgressBound ==
    (Upgraded /\ last.ok /\ last.saved) =>
        /\ last.migrated <= last.total
        /\ last.migrated = Cardinality(SnapshotIds)

\* C32: in any sequence of rebuild invocations and delete_vector commands,
\* the ids a rebuild inserts into the index (the ids it takes after skipping
\* len(), each zipped with a vector) are ids the index does not hold.
Taken ==
    LET new_ids == NewIds(CanonicalIds(links), LoadIndex(vector_lite_bin, TRUE))
    IN  UNION {{Batch(new_ids, j)[i] :
                    i \in 1..ZipLen(Batch(new_ids, j),
                                    get_vector_by_id(vectorize,
                                        Batch(new_ids, j), "as_requested"))} :
               j \in 1..NumBatches(new_ids)}

C32_NoDuplicateInsert == Taken \cap SnapshotIds = {}

\* C33: two rebuilds that both loaded the same snapshot, over a listing that
\* does not change and with no failing step, leave the blob and the
\* embeddings rows as one invocation started from what either of them found
\* leaves them, in every interleaving of their steps.
BothRebuilt ==
    /\ Len(tasks) = 2
    /\ \A t \in 1..2 :
          /\ "kind" \in DOMAIN tasks[t]
          /\ tasks[t].kind = "rebuild"
          /\ tasks[t].pc = "done"

Alone(t) ==
    upgrade_vector_index(links, tasks[t].before.db, vectorize,
                         tasks[t].before.blob, TRUE, "as_requested", NoFault)

C33_OverlappingRebuilds ==
    (BothRebuilt /\ tasks[1].before.blob = tasks[2].before.blob) =>
        \A t \in 1..2 :
            /\ vector_lite_bin = Alone(t).blob
            /\ embeddings = Alone(t).db

\* Both rebuilds loaded the absent snapshot of a listing of 23 ids whose rows
\* the table lacked, and both have written it.
C33_Witness ==
    /\ BothRebuilt
    /\ \A t \in 1..2 :
          /\ ~tasks[t].before.blob.present
          /\ Len(tasks[t].new_ids) = 23
    /\ tasks[1].before.db = EmptyMap
    /\ tasks[2].before.db # EmptyMap
    /\ SnapshotLen = 23
    /\ Cardinality(DOMAIN embeddings) = 23

\* C34: once a /delete_vector command for a document and a rebuild that
\* overlapped it have both completed, the snapshot holds none of the ids
\* "{id}-0" .. "{id}-9" the command removed.
DeletedAndRebuilt ==
    /\ Len(tasks) = 2
    /\ "kind" \in DOMAIN tasks[1]
    /\ tasks[1].kind = "rebuild" /\ tasks[1].pc = "done"
    /\ tasks[2].kind = "delete_vector" /\ tasks[2].pc = "done"

C34_DeleteNotUndone ==
    DeletedAndRebuilt =>
        \A c \in 0..(DELETE_VECTOR_CHUNKS - 1) :
            VectorId(tasks[2].id, c) \notin SnapshotIds

\* C35: after delete_link_and_embedding_by_url has succeeded, in a state
\* reached by ingestions, deletions and rebuilds, every embeddings row
\* belongs to a document that has a links row, and no row of the deleted
\* document is left.
DeletedUrl == "op" \in DOMAIN last /\ last.op = "delete_url" /\ last.ok

GotUpdate(l) == "op" \in DOMAIN l /\ l.op = "update"

C36_AuthorizationGate ==
    [][GotUpdate(last') =>
        /\ (last'.update.has_text /\ ~last'.authorized) =>
              /\ last'.run = "none"
              /\ last'.sent = <<Response("not authorized", FALSE)>>
              /\ UNCHANGED <<links, embeddings, vectorize, vector_lite_bin>>
        /\ ~last'.update.has_text =>
              /\ last'.run = "none"
              /\ last'.sent = <<>>
              /\ UNCHANGED <<links, embeddings, vectorize, vector_lite_bin>>
      ]_vars

\* "/delete_vector q" came from a chat that is not in the list, a list that
\* names chat 1 only: one reply, and the vector is still stored.
C36_Witness ==
    /\ GotUpdate(last)
    /\ last.update.text = Commands.delete_vector \o <<"q">>
    /\ last.update.chat = 2
    /\ ~last.authorized
    /\ Len(last.sent) = 1
    /\ VectorId(StableDocIds[1], 0) \in DOMAIN vectorize
    /\ VectorId(StableDocIds[1], 0) \in SnapshotIds

\* C37: for every text message from an authorized chat exactly one reply is
\* sent, and when the operation fails that reply carries the error.
C37_OneReply ==
    (GotUpdate(last) /\ last.update.has_text /\ last.authorized) =>
        /\ Len(last.sent) = 1
        /\ last.failed => last.sent[1].error

\* C38: when the blob does not exist, a query of the embedded index returns
\* an error and no result; a query writes nothing; and the blob comes to
\* exist through a rebuild only.
C38_QueryWithoutSnapshot ==
    [][/\ LocalQueried' =>
            /\ ~vector_lite_bin.present =>
                  /\ ~last'.result.ok
                  /\ "search" \notin DOMAIN last'.result
            /\ UNCHANGED <<links, embeddings, vectorize, vector_lite_bin>>
       /\ (~vector_lite_bin.present /\ vector_lite_bin'.present) =>
            last'.op = "upgrade"
      ]_vars

\* The query text was embedded at the second attempt, the blob is absent and
\* the query returned the error of the load, after a /delete_vector that
\* removed the vector from the remote index and left no blob either.
C38_Witness ==
    /\ LocalQueried
    /\ Len(calls) = 2
    /\ ~vector_lite_bin.present
    /\ ~last.result.ok
    /\ last.result.err = <<"Failed to get vector lite">>
    /\ links # <<>>
    /\ DOMAIN vectorize = {}

\* C39: chunk_and_summary_link returns in the end, after at most 10 requests;
\* a follow-up request is sent only when the response before it was
\* delivered and truncated, and a failed request is the last step of the
\* call, which returns its error.
Returned == tasks[1].pc = "done"

C39_BoundedContinuation ==
    /\ [](Len(calls) <= MAX_ATTEMPTS)
    /\ [][Len(calls') > Len(calls) =>
            /\ Len(calls) >= 1 =>
                  /\ gemini_api_request(workers_ai[1]).ok
                  /\ workers_ai[1].finish = "MAX_TOKENS"
            /\ ~gemini_api_request(workers_ai'[1]).ok =>
                  /\ Returned'
                  /\ tasks'[1].result
                        = [ok |-> FALSE,
                           err |-> gemini_api_request(workers_ai'[1]).err]
         ]_vars
    /\ <>Returned

\* Ten requests were sent, every response truncated, and the call returned
\* what it had.
C39_Witness ==
    /\ Returned
    /\ Len(calls) = 10
    /\ tasks[1].was_truncated
    /\ Len(tasks[1].response_text) = 10
    /\ tasks[1].result.ok

====
